---- MODULE Spec2Model ----
(***************************************************************************)
(* Answer layering for the Signatures engine (learning/answer_Layers.py)   *)
(* and the normalisers of learning/signatures_engine.py, with the          *)
(* calculator context of the engine, the question-bank converter           *)
(* (learning/convert_questions_to_text_to_bank.py) and the CKM staging of  *)
(* learning/combined_calculator.py.                                        *)
(*                                                                         *)
(* Python text is modelled by TLA+ strings, one character per position.    *)
(* The typographic quotes and dashes of the catalog texts are written with *)
(* their ASCII counterparts (' " -).                                       *)
(***************************************************************************)
EXTENDS Integers, Sequences, FiniteSets, TLC

VARIABLES
    question, base, calc_context,   \* the arguments of the builders
    raw, horizon,                   \* the arguments of the normalisers
    result,                         \* what the last builder call returned
    ret,                            \* what the last normaliser call returned
    CONDITION_ADDONS,               \* module global of answer_Layers.py
    ENGAGEMENT_ADDONS,              \* module global of answer_Layers.py
    shared,                         \* catalog lists that the returned addons list is
    earlier,                        \* a call remembered by the caller
    ANSWER_LAYERS_AVAILABLE,        \* module global of signatures_engine.py
    CALC_CONTEXT,                   \* module global of signatures_engine.py
    CALCULATOR_AVAILABLE,           \* module global of signatures_engine.py
    calculator,                     \* the calculator module the engine imported
    applied,                        \* the demo names applied so far
    merged,                         \* what get_merged_calc_context returned
    input_lines,                          \* the argument of parse_blocks
    questions,                      \* what parse_blocks returned
    inferred,                       \* a call of infer_engagement_drivers
    ckm_arguments,                  \* the arguments of determine_ckm_stage
    coronary_artery_disease,        \* module global of combined_calculator.py
    coronary_artery_calcium,        \* module global of combined_calculator.py
    stable_angina,                  \* module global of combined_calculator.py
    ckm_stage                       \* what determine_ckm_stage returned

vars ==
    << question, base, calc_context, raw, horizon, result, ret,
       CONDITION_ADDONS, ENGAGEMENT_ADDONS, shared, earlier, ANSWER_LAYERS_AVAILABLE,
       CALC_CONTEXT, CALCULATOR_AVAILABLE, calculator, applied, merged,
       input_lines, questions, inferred,
       ckm_arguments, coronary_artery_disease, coronary_artery_calcium, stable_angina,
       ckm_stage >>

(***************************************************************************)
(* Bounds of the explored inputs.                                          *)
(***************************************************************************)
MaxConds == 3
MaxDrivers == 2
MaxBaseLen == 4
MaxAbsInt == 3
MaxEdgeConds == 2
MaxBetween == 2
MaxApplied == 3
MaxLines == 3

(***************************************************************************)
(* Python strings: str.strip, str.lower, str.upper, substring test.        *)
(***************************************************************************)
Whitespace == {" ", "\t", "\n", "\r", "\f"}
UpperLetters == "ABCDEFGHIJKLMNOPQRSTUVWXYZ"
LowerLetters == "abcdefghijklmnopqrstuvwxyz"
Digits == "0123456789"

CharAt(s, i) == SubSeq(s, i, i)

IndexIn(alphabet, c) ==
    IF \E i \in 1..Len(alphabet) : CharAt(alphabet, i) = c
    THEN CHOOSE i \in 1..Len(alphabet) : CharAt(alphabet, i) = c
    ELSE 0

LowerOf ==
    [c \in {CharAt(UpperLetters, i) : i \in 1..Len(UpperLetters)} |->
        CharAt(LowerLetters, IndexIn(UpperLetters, c))]

UpperOf ==
    [c \in {CharAt(LowerLetters, i) : i \in 1..Len(LowerLetters)} |->
        CharAt(UpperLetters, IndexIn(LowerLetters, c))]

LowerChar(c) == IF c \in DOMAIN LowerOf THEN LowerOf[c] ELSE c

UpperChar(c) == IF c \in DOMAIN UpperOf THEN UpperOf[c] ELSE c

\* str.lower and str.upper, character by character (split in halves)
RECURSIVE Lower(_)
Lower(s) ==
    IF Len(s) <= 1 THEN LowerChar(s)
    ELSE Lower(SubSeq(s, 1, Len(s) \div 2)) \o Lower(SubSeq(s, Len(s) \div 2 + 1, Len(s)))

RECURSIVE Upper(_)
Upper(s) ==
    IF Len(s) <= 1 THEN UpperChar(s)
    ELSE Upper(SubSeq(s, 1, Len(s) \div 2)) \o Upper(SubSeq(s, Len(s) \div 2 + 1, Len(s)))

Capitalized(s) == IF s = "" THEN "" ELSE UpperChar(CharAt(s, 1)) \o SubSeq(s, 2, Len(s))

RECURSIVE FirstNonWs(_, _)
FirstNonWs(s, i) ==
    IF i > Len(s) THEN i
    ELSE IF CharAt(s, i) \in Whitespace THEN FirstNonWs(s, i + 1) ELSE i

RECURSIVE LastNonWs(_, _)
LastNonWs(s, i) ==
    IF i < 1 THEN i
    ELSE IF CharAt(s, i) \in Whitespace THEN LastNonWs(s, i - 1) ELSE i

Strip(s) == SubSeq(s, FirstNonWs(s, 1), LastNonWs(s, Len(s)))

Contains(s, p) ==
    \E i \in 1..(Len(s) - Len(p) + 1) : SubSeq(s, i, i + Len(p) - 1) = p

RECURSIVE Join(_, _)
Join(sep, items) ==
    IF items = << >> THEN ""
    ELSE IF Len(items) = 1 THEN items[1]
    ELSE items[1] \o sep \o Join(sep, Tail(items))

RECURSIVE NatToStr(_)
NatToStr(n) ==
    IF n < 10 THEN CharAt(Digits, n + 1)
    ELSE NatToStr(n \div 10) \o CharAt(Digits, (n % 10) + 1)

IntToStr(n) == IF n < 0 THEN "-" \o NatToStr(-n) ELSE NatToStr(n)

AllDigits(s) == s # "" /\ \A i \in 1..Len(s) : IndexIn(Digits, CharAt(s, i)) > 0

RECURSIVE DigitsToNat(_)
DigitsToNat(s) ==
    IF s = "" THEN 0
    ELSE 10 * DigitsToNat(SubSeq(s, 1, Len(s) - 1)) + (IndexIn(Digits, CharAt(s, Len(s))) - 1)

(***************************************************************************)
(* Python values.  A value carries its type tag; a float holds its value   *)
(* in ten-thousandths (n = 750 is 0.075), a container holds its str().     *)
(***************************************************************************)
FloatScale == 100 * 100

PyNone == [t |-> "none", b |-> FALSE, n |-> 0, s |-> ""]
PyBool(x) == [t |-> "bool", b |-> x, n |-> 0, s |-> ""]
PyInt(k) == [t |-> "int", b |-> FALSE, n |-> k, s |-> ""]
PyFloat(k) == [t |-> "float", b |-> FALSE, n |-> k, s |-> ""]
PyStr(x) == [t |-> "str", b |-> FALSE, n |-> 0, s |-> x]
PyList(repr) == [t |-> "list", b |-> FALSE, n |-> 0, s |-> repr]
\* an object whose __str__ raises
PyObject == [t |-> "object", b |-> FALSE, n |-> 0, s |-> ""]

RECURSIVE TrimZeros(_)
TrimZeros(s) ==
    IF Len(s) > 1 /\ CharAt(s, Len(s)) = "0" THEN TrimZeros(SubSeq(s, 1, Len(s) - 1)) ELSE s

Pad4(s) == SubSeq("0000", 1, 4 - Len(s)) \o s

FloatToStr(k) ==
    LET a == IF k < 0 THEN -k ELSE k
    IN  (IF k < 0 THEN "-" ELSE "") \o NatToStr(a \div FloatScale) \o "."
            \o TrimZeros(Pad4(NatToStr(a % FloatScale)))

\* str(x)
ToStr(x) ==
    CASE x.t = "none" -> "None"
      [] x.t = "bool" -> IF x.b THEN "True" ELSE "False"
      [] x.t = "int" -> IntToStr(x.n)
      [] x.t = "float" -> FloatToStr(x.n)
      [] x.t = "str" -> x.s
      [] x.t = "list" -> x.s

\* str(x) raises
StrRaises(x) == x.t = "object"

\* The outcome of a conversion that may raise: ok = FALSE is the exception.
Raised == [ok |-> FALSE, n |-> 0]
Returned(k) == [ok |-> TRUE, n |-> k]

Unsigned(s) ==
    IF s # "" /\ CharAt(s, 1) \in {"+", "-"} THEN SubSeq(s, 2, Len(s)) ELSE s

Signed(s, k) == IF s # "" /\ CharAt(s, 1) = "-" THEN -k ELSE k

\* int(x): truncation for floats, decimal literal for strings, TypeError
\* for None and containers.
ToInt(x) ==
    CASE x.t = "bool" -> Returned(IF x.b THEN 1 ELSE 0)
      [] x.t = "int" -> Returned(x.n)
      [] x.t = "float" ->
            Returned(IF x.n < 0 THEN -((-x.n) \div FloatScale) ELSE x.n \div FloatScale)
      [] x.t = "str" ->
            LET u == Strip(x.s)
            IN  IF AllDigits(Unsigned(u)) THEN Returned(Signed(u, DigitsToNat(Unsigned(u))))
                ELSE Raised
      [] OTHER -> Raised

\* float(x), in ten-thousandths: a string is "digits" or "digits.digits"
\* with at most four decimals.
ToFloat(x) ==
    CASE x.t = "bool" -> Returned(IF x.b THEN FloatScale ELSE 0)
      [] x.t = "int" -> Returned(x.n * FloatScale)
      [] x.t = "float" -> Returned(x.n)
      [] x.t = "str" ->
            LET u == Unsigned(Strip(x.s))
                dot == IndexIn(u, ".")
                ip == IF dot = 0 THEN u ELSE SubSeq(u, 1, dot - 1)
                fp == IF dot = 0 THEN "" ELSE SubSeq(u, dot + 1, Len(u))
                fp4 == fp \o SubSeq("0000", 1, 4 - Len(fp))
            IN  IF AllDigits(ip) /\ (dot = 0 \/ (AllDigits(fp) /\ Len(fp) <= 4))
                THEN Returned(Signed(Strip(x.s),
                                     DigitsToNat(ip) * FloatScale + DigitsToNat(fp4)))
                ELSE Raised
      [] OTHER -> Raised

(***************************************************************************)
(* Python dicts keep insertion order: a dict is the sequence of its        *)
(* key/value items, with pairwise distinct keys.                           *)
(***************************************************************************)
Item(key, value) == [k |-> key, v |-> value]

Keys(items) == {items[i].k : i \in 1..Len(items)}

\* d.get(key): None when the key is absent
Get(items, key) ==
    IF key \in Keys(items)
    THEN items[CHOOSE i \in 1..Len(items) : items[i].k = key].v
    ELSE PyNone

DictBlock(items) == [kind |-> "dict", items |-> items]
MissingBlock == [kind |-> "missing", items |-> << >>]
OtherBlock == [kind |-> "other", items |-> << >>]

Context(cm, ed, pv) ==
    [kind |-> "dict", condition_modifiers |-> cm, engagement_drivers |-> ed, prevent |-> pv]

Tags(items) == [kind |-> "list", items |-> items]
NoTags == [kind |-> "missing", items |-> << >>]
Question(tags) ==
    [kind |-> "dict", signatures |-> [kind |-> "dict", condition_modifiers |-> tags]]

(***************************************************************************)
(* answer_Layers.py: helpers                                               *)
(***************************************************************************)
_safe_strip(x) == IF x.t = "none" THEN "" ELSE Strip(ToStr(x))

FalseTokens == {"", "none", "null", "na", "n/a", "unknown",
                "no", "n", "false", "0", "absent", "negative", "not present"}
TrueTokens == {"yes", "y", "true", "1", "selected", "present", "positive"}

\* _is_selected with the fallback of unrecognised text turned to "not selected"
IsSelectedConservative(value) ==
    IF value.t = "none" THEN FALSE
    ELSE IF value.t = "bool" THEN value.b
    ELSE IF value.t \in {"int", "float"} THEN value.n # 0
    ELSE Lower(Strip(ToStr(value))) \in TrueTokens

_is_selected(value) ==
    IF value.t = "none" THEN FALSE
    ELSE IF value.t = "bool" THEN value.b
    ELSE IF value.t \in {"int", "float"} THEN value.n # 0
    ELSE LET s == Lower(_safe_strip(value))
         IN  IF s \in FalseTokens THEN FALSE
             ELSE IF s \in TrueTokens THEN TRUE
             ELSE TRUE

\* _get_calc_block reading the blocks of a context that is no dict
GetCalcBlockOfAny(ctx, key) ==
    LET v == CASE key = "condition_modifiers" -> ctx.condition_modifiers
               [] key = "engagement_drivers" -> ctx.engagement_drivers
               [] key = "prevent" -> ctx.prevent
    IN  IF v.kind = "dict" THEN v.items ELSE << >>

_get_calc_block(ctx, key) ==
    LET v == IF ctx.kind = "dict"
             THEN (CASE key = "condition_modifiers" -> ctx.condition_modifiers
                     [] key = "engagement_drivers" -> ctx.engagement_drivers
                     [] key = "prevent" -> ctx.prevent)
             ELSE MissingBlock
    IN  IF v.kind = "dict" THEN v.items ELSE << >>

_get_question_signatures(q) ==
    IF q.kind = "dict" /\ q.signatures.kind = "dict"
    THEN q.signatures
    ELSE [kind |-> "dict", condition_modifiers |-> NoTags]

RECURSIVE TagList(_)
TagList(mods) ==
    IF mods = << >> THEN << >>
    ELSE (IF Strip(mods[1]) # "" THEN << Upper(Strip(mods[1])) >> ELSE << >>)
            \o TagList(Tail(mods))

_get_question_condition_tags(q) ==
    LET mods == _get_question_signatures(q).condition_modifiers
    IN  IF mods.kind = "list" THEN TagList(mods.items) ELSE << >>

RECURSIVE BulletItems(_)
BulletItems(items) ==
    IF items = << >> THEN << >>
    ELSE (IF Strip(items[1]) # "" THEN << "- " \o Strip(items[1]) >> ELSE << >>)
            \o BulletItems(Tail(items))

_bullets(items) == Join("\n", BulletItems(items))

(***************************************************************************)
(* answer_Layers.py: layer catalogs.  The two dict literals are the values *)
(* the globals CONDITION_ADDONS and ENGAGEMENT_ADDONS are bound to when    *)
(* the module is loaded; CONDITION_ORDER and ENGAGEMENT_ORDER are their    *)
(* iteration orders.                                                       *)
(***************************************************************************)
ConditionAddonsLiteral ==
    ("CAD" :> [title |-> "CAD considerations", lines |-> <<
        "If exertion brings chest pressure, unusual shortness of breath, or dizziness, stop and follow your symptom action plan.",
        "Ask your clinician what your LDL-C target is and how your current plan supports it (meds + lifestyle)." >>])
    @@ ("AF" :> [title |-> "AFib considerations", lines |-> <<
        "Know your stroke warning signs (FAST) and your anticoagulation plan if prescribed.",
        "If you notice sustained palpitations with fainting, chest pain, or severe breathlessness, seek urgent care." >>])
    @@ ("HF" :> [title |-> "Heart failure considerations", lines |-> <<
        "Track daily weight and swelling if advised; rapid weight gain can signal fluid retention.",
        "If shortness of breath suddenly worsens, or you can't lie flat, contact your care team promptly." >>])
    @@ ("HTN" :> [title |-> "Blood pressure considerations", lines |-> <<
        "Home BP technique matters: seated, rested 5 minutes, arm at heart level; take 2 readings and average.",
        "If readings are very high with symptoms (chest pain, severe headache, weakness, trouble speaking), seek urgent care." >>])
    @@ ("DM" :> [title |-> "Diabetes considerations", lines |-> <<
        "If you use insulin or meds that can cause lows, carry fast-acting carbs and know the 15-15 rule.",
        "Ask what your A1c target is and how often to recheck based on your regimen and risk." >>])
    @@ ("CKMH" :> [title |-> "Heart-kidney-metabolic considerations", lines |-> <<
        "These systems are connected-BP, glucose, kidney function, and lipids work together in risk reduction.",
        "Ask how your eGFR and UACR affect your medication choices and monitoring frequency." >>])
    @@ ("ST" :> [title |-> "Stroke/TIA considerations", lines |-> <<
        "If you have new one-sided weakness, facial droop, or speech trouble, treat it as an emergency (call 911).",
        "Secondary prevention often focuses on BP, cholesterol, diabetes, and rhythm (AFib) control-ask which apply to you." >>])
    @@ ("CH" :> [title |-> "Cholesterol treatment considerations", lines |-> <<
        "If you have muscle aches or concerns about statins, don't stop abruptly-ask about dose adjustments or alternatives.",
        "Recheck your lipid panel on the schedule your clinician recommends to confirm you're at goal." >>])

EngagementAddonsLiteral ==
    ("trust" :> (
        (-1 :> <<
            "If you're unsure who to trust, we can stick to one or two well-known sources and confirm the plan with your clinician.",
            "It's okay to ask: \"What's the benefit, what's the downside, and what are my options?\"" >>)
        @@ (1 :> <<
            "Since you're engaged with your care, consider bringing your tracked data (BP, steps, symptoms) to tighten the plan together." >>)))
    @@ ("health_literacy" :> (
        (-1 :> <<
            "Here's the short version: pick 1 change this week, track it for 7 days, and bring the results to your next visit.",
            "If any terms feel unclear, ask for plain-language explanations-good care should be understandable." >>)
        @@ (1 :> <<
            "If you like details, ask for your exact targets (BP, LDL, A1c) and how your numbers are trending over time." >>)))
    @@ ("readiness_for_change" :> (
        (-1 :> <<
            "No pressure to change everything today-choose the smallest step that feels realistic and start there." >>)
        @@ (1 :> <<
            "Since you feel ready, choose one \"next-step\" goal and set a check-in date to review progress." >>)))
    @@ ("selfefficacy" :> (
        (-1 :> <<
            "Let's make this easier: define a 5-minute starter step you can succeed with, then build from wins." >>)
        @@ (1 :> <<
            "You seem confident-use that strength to build a simple routine and track streaks." >>)))
    @@ ("proactiveness" :> (
        (-1 :> <<
            "If this feels like a lot, start by writing 2 questions for your next visit-momentum often starts with clarity." >>)
        @@ (1 :> <<
            "You're being proactive-consider a weekly 'health planning' time to review meds, activity, and symptoms." >>)))
    @@ ("goal_orientation" :> (
        (-1 :> <<
            "Try one SMART goal: specific, measurable, achievable, relevant, time-bound (example: walk 10 minutes after dinner 5 days this week)." >>)
        @@ (1 :> <<
            "Pick a measurable target for the next 7 days and track it daily (minutes, steps, BP, or sleep)." >>)))
    @@ ("independence" :> (
        (-1 :> <<
            "If you rely on others, choose one support person and give them a clear role (reminders, walks, meal planning)." >>)
        @@ (1 :> <<
            "Since you prefer autonomy, use a simple self-tracking tool and bring the summary to visits." >>)))
    @@ ("decision_style" :> (
        (-1 :> <<
            "If decisions feel stressful, ask your clinician for 2-3 options and a recommendation, then take 24 hours to decide if needed." >>)
        @@ (1 :> <<
            "Since you like exploring options, ask: \"What are the alternatives and what evidence supports each?\"" >>)))
    @@ ("food_insecurity" :> (
        (-1 :> <<
            "If cost or access is a barrier, ask about budget-friendly heart-healthy staples (beans, frozen vegetables, oats) and local support resources." >>)
        @@ (1 :> <<
            "If access is good, plan one grocery swap this week that supports your goal (lower sodium, higher fiber)." >>)))
    @@ ("access_to_healthcare" :> (
        (-1 :> <<
            "If appointments are hard to access, ask about telehealth follow-ups, remote monitoring, or community-based resources." >>)
        @@ (1 :> <<
            "Since you can access care, consider scheduling a follow-up date now to review progress and adjust the plan." >>)))

CONDITION_ORDER == << "CAD", "AF", "HF", "HTN", "DM", "CKMH", "ST", "CH" >>
ENGAGEMENT_ORDER == <<
    "trust",
    "health_literacy",
    "readiness_for_change",
    "selfefficacy",
    "proactiveness",
    "goal_orientation",
    "independence",
    "decision_style",
    "food_insecurity",
    "access_to_healthcare" >>

\* the relevance flag switched on
RelevanceRequired == TRUE

REQUIRE_QUESTION_RELEVANCE_FOR_CONDITION_ADDONS == FALSE

(***************************************************************************)
(* answer_Layers.py: internal collector                                    *)
(***************************************************************************)
RECURSIVE ActiveConditions(_)
ActiveConditions(items) ==
    IF items = << >> THEN << >>
    ELSE LET code_u == Upper(Strip(items[1].k))
         IN  (IF code_u # "" /\ _is_selected(items[1].v) THEN << code_u >> ELSE << >>)
                \o ActiveConditions(Tail(items))

RECURSIVE StrippedLines(_)
StrippedLines(lines) ==
    IF lines = << >> THEN << >>
    ELSE (IF Strip(lines[1]) # "" THEN << Strip(lines[1]) >> ELSE << >>)
            \o StrippedLines(Tail(lines))

NoLayer == [addons |-> << >>, why |-> << >>, matched |-> << >>]

\* condition lines with a reason for the codes the catalog does not hold
RECURSIVE ConditionLinesKeepUnknown(_, _)
ConditionLinesKeepUnknown(active_conditions, q_condition_tags) ==
    IF active_conditions = << >> THEN NoLayer
    ELSE LET cond == active_conditions[1]
             rest == ConditionLinesKeepUnknown(Tail(active_conditions), q_condition_tags)
         IN  [addons |-> (IF cond \in DOMAIN CONDITION_ADDONS
                          THEN StrippedLines(CONDITION_ADDONS[cond].lines) ELSE << >>)
                            \o rest.addons,
              why |-> << cond \o " active" >> \o rest.why,
              matched |-> << >>]

RECURSIVE ConditionLines(_, _)
ConditionLines(active_conditions, q_condition_tags) ==
    IF active_conditions = << >> THEN NoLayer
    ELSE LET cond == active_conditions[1]
             rest == ConditionLines(Tail(active_conditions), q_condition_tags)
         IN  IF cond \notin DOMAIN CONDITION_ADDONS
             THEN rest
             ELSE IF REQUIRE_QUESTION_RELEVANCE_FOR_CONDITION_ADDONS
                     /\ q_condition_tags # {} /\ cond \notin q_condition_tags
             THEN rest
             ELSE [addons |-> StrippedLines(CONDITION_ADDONS[cond].lines) \o rest.addons,
                   why |-> << cond \o " active" >> \o rest.why,
                   matched |-> << >>]

\* EngagementLines with the test for a value of 0 (line 474) left out
RECURSIVE EngagementLinesWithZero(_, _)
EngagementLinesWithZero(driver_keys, calc_drivers) ==
    IF driver_keys = << >> THEN NoLayer
    ELSE LET driver_key == driver_keys[1]
             variants == ENGAGEMENT_ADDONS[driver_key]
             rest == EngagementLinesWithZero(Tail(driver_keys), calc_drivers)
             val == ToInt(Get(calc_drivers, driver_key))
         IN  IF driver_key \notin Keys(calc_drivers) THEN rest
             ELSE IF ~val.ok THEN rest
             ELSE IF val.n \notin {-1, 0, 1} THEN rest
             ELSE [addons |-> StrippedLines(IF val.n \in DOMAIN variants
                                            THEN variants[val.n] ELSE << >>)
                                \o rest.addons,
                   why |-> << driver_key \o " " \o IntToStr(val.n) >> \o rest.why,
                   matched |-> << Item(driver_key, val.n) >> \o rest.matched]

RECURSIVE EngagementLines(_, _)
EngagementLines(driver_keys, calc_drivers) ==
    IF driver_keys = << >> THEN NoLayer
    ELSE LET driver_key == driver_keys[1]
             variants == ENGAGEMENT_ADDONS[driver_key]
             rest == EngagementLines(Tail(driver_keys), calc_drivers)
             val == ToInt(Get(calc_drivers, driver_key))
         IN  IF driver_key \notin Keys(calc_drivers) THEN rest
             ELSE IF ~val.ok THEN rest
             ELSE IF val.n \notin {-1, 0, 1} \/ val.n = 0 THEN rest
             ELSE [addons |-> StrippedLines(IF val.n \in DOMAIN variants
                                            THEN variants[val.n] ELSE << >>)
                                \o rest.addons,
                   why |-> << driver_key \o " " \o IntToStr(val.n) >> \o rest.why,
                   matched |-> << Item(driver_key, val.n) >> \o rest.matched]

Range(seq) == {seq[i] : i \in 1..Len(seq)}

\* a collector that keeps its two lists from one call to the next
CollectRemembering(q, ctx) ==
    LET cl == ConditionLines(ActiveConditions(_get_calc_block(ctx, "condition_modifiers")), {})
        el == EngagementLines(ENGAGEMENT_ORDER, _get_calc_block(ctx, "engagement_drivers"))
        kept == IF Len(result.addons) < 8 THEN result ELSE [result EXCEPT !.addons = << >>,
                                                                          !.why_added = << >>]
    IN  [addons |-> kept.addons \o cl.addons \o el.addons,
         why |-> kept.why_added \o cl.why \o el.why,
         debug |-> [error |-> "", active_conditions |-> << >>,
                    question_condition_tags |-> {}, matched_drivers |-> el.matched]]

_collect_addons_and_reasons(q, ctx) ==
    IF q.kind # "dict"
    THEN [addons |-> << >>, why |-> << >>,
          debug |-> [error |-> "question not dict", active_conditions |-> << >>,
                     question_condition_tags |-> {}, matched_drivers |-> << >>]]
    ELSE LET calc_conditions == _get_calc_block(ctx, "condition_modifiers")
             calc_drivers == _get_calc_block(ctx, "engagement_drivers")
             q_condition_tags == Range(_get_question_condition_tags(q))
             active_conditions == ActiveConditions(calc_conditions)
             cl == ConditionLines(active_conditions, q_condition_tags)
             el == EngagementLines(ENGAGEMENT_ORDER, calc_drivers)
         IN  [addons |-> cl.addons \o el.addons,
              why |-> cl.why \o el.why,
              debug |-> [error |-> "", active_conditions |-> active_conditions,
                         question_condition_tags |-> q_condition_tags,
                         matched_drivers |-> el.matched]]

\* the collector raises: _is_selected passes a flag that is neither None, a
\* boolean nor a number to str(), outside any try
CollectorRaises(q, ctx) ==
    /\ q.kind = "dict"
    /\ LET calc_conditions == _get_calc_block(ctx, "condition_modifiers")
       IN  \E i \in 1..Len(calc_conditions) :
                /\ Upper(Strip(calc_conditions[i].k)) # ""
                /\ calc_conditions[i].v.t \notin {"none", "bool", "int", "float"}
                /\ StrRaises(calc_conditions[i].v)

\* a collector that hands out the catalog's own list when the lines of one
\* condition are all it returns
AddonsAliasesSingle(q, ctx) ==
    {cond \in DOMAIN CONDITION_ADDONS :
        _collect_addons_and_reasons(q, ctx).addons = CONDITION_ADDONS[cond].lines}

\* the catalog line lists that are the same list object as the returned
\* addons: none, the collector appends to a list it creates
AddonsAliases(q, ctx) == {}

(***************************************************************************)
(* answer_Layers.py: builders.  A call returns the record below; the       *)
(* fields a builder does not return stay empty.                            *)
(***************************************************************************)
NoDebug ==
    [error |-> "", active_conditions |-> << >>,
     question_condition_tags |-> {}, matched_drivers |-> << >>]

NoResult ==
    [fn |-> "none", base |-> "", addons |-> << >>, why_added |-> << >>,
     text |-> "", final |-> "", debug |-> NoDebug, meta |-> "none"]

build_answer_addons(q, ctx, style) ==
    LET c == _collect_addons_and_reasons(q, ctx)
    IN  [NoResult EXCEPT !.fn = "build_answer_addons",
                         !.text = IF c.addons = << >> THEN "" ELSE Strip(_bullets(c.addons))]

build_answer_addons_structured(q, ctx, style) ==
    LET c == _collect_addons_and_reasons(q, ctx)
    IN  [NoResult EXCEPT !.fn = "build_answer_addons_structured",
                         !.text = IF c.addons # << >> THEN Strip(_bullets(c.addons)) ELSE "",
                         !.addons = c.addons,
                         !.why_added = c.why,
                         !.debug = c.debug]

\* build_layered_answer_structured returning the base as given when there
\* is no addon
BuildLayeredBaseVerbatim(q, b, ctx, style) ==
    LET base_s == _safe_strip(b)
        c == _collect_addons_and_reasons(q, ctx)
        addon_text == IF c.addons # << >> THEN Strip(_bullets(c.addons)) ELSE ""
    IN  [NoResult EXCEPT !.fn = "build_layered_answer_structured",
                         !.base = base_s,
                         !.addons = c.addons,
                         !.why_added = c.why,
                         !.final = IF addon_text # ""
                                   THEN Strip(base_s \o "\n\n" \o addon_text)
                                   ELSE (IF b.t = "none" THEN "" ELSE ToStr(b))]

\* build_layered_answer_structured without the strip of the joined text
BuildLayeredUnstripped(q, b, ctx, style) ==
    LET base_s == _safe_strip(b)
        c == _collect_addons_and_reasons(q, ctx)
        addon_text == IF c.addons # << >> THEN Strip(_bullets(c.addons)) ELSE ""
    IN  [NoResult EXCEPT !.fn = "build_layered_answer_structured",
                         !.base = base_s,
                         !.addons = c.addons,
                         !.why_added = c.why,
                         !.final = IF addon_text # "" THEN base_s \o "\n\n" \o addon_text
                                   ELSE base_s]

build_layered_answer_structured(q, b, ctx, style) ==
    LET base_s == _safe_strip(b)
        c == _collect_addons_and_reasons(q, ctx)
        addon_text == IF c.addons # << >> THEN Strip(_bullets(c.addons)) ELSE ""
        final == IF addon_text # "" THEN Strip(base_s \o "\n\n" \o addon_text) ELSE base_s
    IN  [NoResult EXCEPT !.fn = "build_layered_answer_structured",
                         !.base = base_s,
                         !.addons = c.addons,
                         !.why_added = c.why,
                         !.final = final]

\* an exception that leaves the called function
Propagated(fn, exception) == [NoResult EXCEPT !.fn = fn, !.debug.error = exception]

(***************************************************************************)
(* answer_Layers.py: engine-facing wrapper.  The name build_answer_addons  *)
(* is bound to the last function defined under it (line 495), whose        *)
(* parameters are question, calc_context and style.                        *)
(***************************************************************************)
BuilderParameters == {"question", "calc_context", "style"}
WrapperKeywords == {"question_payload", "calc_context", "style"}

\* a call with a keyword the function has no parameter for raises TypeError
CallRaises(keywords, parameters) == ~(keywords \subseteq parameters)

\* calc_context or {}
OrEmpty(ctx) ==
    IF ctx.kind = "none" THEN Context(MissingBlock, MissingBlock, MissingBlock) ELSE ctx

_apply_answer_layers(base_text, question_payload, persona, ctx) ==
    LET base_s == _safe_strip(base_text)
        caught == \/ CallRaises(WrapperKeywords, BuilderParameters)
                  \/ CollectorRaises(question_payload, OrEmpty(ctx))
        returned == build_answer_addons(question_payload, OrEmpty(ctx), persona).text
        \* pkg keeps its empty default after an exception and for a returned ""
        addons_list == StrippedLines(<< >>)
        why_list == StrippedLines(<< >>)
        addon_block == Strip(Join("\n", addons_list))
        final == IF addon_block # "" THEN Strip(base_s \o "\n\n" \o addon_block) ELSE base_s
    IN  IF caught \/ returned = ""
        THEN [NoResult EXCEPT !.fn = "_apply_answer_layers",
                              !.base = base_s,
                              !.addons = addons_list,
                              !.why_added = why_list,
                              !.final = final,
                              !.meta = "dict"]
        \* pkg is a non-empty str, which has no get
        ELSE Propagated("_apply_answer_layers", "AttributeError")

(***************************************************************************)
(* signatures_engine.py: _apply_answer_layers.  build_answer_addons is the *)
(* function imported at line 97, the str-returning builder above, so of    *)
(* the branches on the type of res the one for str is taken.               *)
(***************************************************************************)
\* _apply_answer_layers without the try around the builder call
EngineApplyUnguarded(base_text, question_payload, persona, ctx) ==
    LET unlayered == [NoResult EXCEPT !.fn = "signatures_engine._apply_answer_layers",
                                      !.final = ToStr(base_text),
                                      !.meta = "none"]
    IN  IF ~ANSWER_LAYERS_AVAILABLE THEN unlayered
        ELSE IF CollectorRaises(question_payload, OrEmpty(ctx))
        THEN Propagated("signatures_engine._apply_answer_layers", "Exception")
        ELSE LET addon_text ==
                    Strip(build_answer_addons(question_payload, OrEmpty(ctx), persona).text)
             IN  IF addon_text = "" THEN unlayered
                 ELSE [unlayered EXCEPT
                            !.final = Strip(ToStr(base_text) \o "\n\n" \o addon_text),
                            !.meta = "dict",
                            !.base = ToStr(base_text),
                            !.addons = << addon_text >>,
                            !.why_added = << >>]

engine_apply_answer_layers(base_text, question_payload, persona, ctx) ==
    LET unlayered == [NoResult EXCEPT !.fn = "signatures_engine._apply_answer_layers",
                                      !.final = ToStr(base_text),
                                      !.meta = "none"]
    IN  IF ~ANSWER_LAYERS_AVAILABLE THEN unlayered
        ELSE IF CollectorRaises(question_payload, OrEmpty(ctx)) THEN unlayered
        ELSE LET res == build_answer_addons(question_payload, OrEmpty(ctx), persona).text
                 addon_text == Strip(res)
             IN  IF addon_text = "" THEN unlayered
                 ELSE IF base_text.t # "str"
                 THEN Propagated("signatures_engine._apply_answer_layers", "TypeError")
                 ELSE [unlayered EXCEPT
                            !.final = Strip(base_text.s \o "\n\n" \o addon_text),
                            !.meta = "dict",
                            !.base = base_text.s,
                            !.addons = << addon_text >>,
                            !.why_added = << >>]

(***************************************************************************)
(* signatures_engine.py: normalisers                                       *)
(***************************************************************************)
_clamp_engagement_value(v) ==
    LET iv == ToInt(v)
    IN  IF ~iv.ok THEN 0
        ELSE IF iv.n < -1 THEN -1
        ELSE IF iv.n > 1 THEN 1
        ELSE iv.n

\* _prevent_tier with the 7.5% comparison made strict (< for <=)
PreventTierInclusive(risk, h_arg) ==
    LET r == ToFloat(risk)
        r_pct == r.n * 100
    IN  IF ~r.ok THEN ""
        ELSE IF Contains(Lower(h_arg), "10")
        THEN (IF r_pct < 5 * FloatScale THEN "Low"
              ELSE IF 10 * r_pct < 75 * FloatScale THEN "Borderline"
              ELSE "High")
        ELSE (IF r_pct < 20 * FloatScale THEN "Low"
              ELSE IF r_pct < 40 * FloatScale THEN "Moderate"
              ELSE "High")

\* r_pct is float(risk) * 100.0, held in ten-thousandths like every float.
_prevent_tier(risk, h_arg) ==
    LET r == ToFloat(risk)
        r_pct == r.n * 100
        h == Lower(h_arg)
    IN  IF ~r.ok THEN ""
        ELSE IF Contains(h, "10")
        THEN (IF r_pct < 5 * FloatScale THEN "Low"
              ELSE IF 10 * r_pct <= 75 * FloatScale THEN "Borderline"
              ELSE "High")
        ELSE (IF r_pct < 20 * FloatScale THEN "Low"
              ELSE IF r_pct < 40 * FloatScale THEN "Moderate"
              ELSE "High")

\* signatures_engine._is_selected, the normaliser behind the engine's list
\* of selected conditions
EngineTrueTokens == {"yes", "y", "true", "t", "1", "on", "checked", "selected"}
EngineFalseTokens == {"no", "n", "false", "f", "0", "off", "unchecked", "", "none"}

engine_is_selected(v) ==
    IF v.t = "none" THEN FALSE
    ELSE IF v.t = "bool" THEN v.b
    ELSE IF v.t \in {"int", "float"} THEN v.n # 0
    ELSE LET s == Lower(Strip(ToStr(v)))
         IN  IF s \in EngineTrueTokens THEN TRUE
             ELSE IF s \in EngineFalseTokens THEN FALSE
             ELSE FALSE

(***************************************************************************)
(* signatures_engine.py: the calculator context.  CALC_CONTEXT holds the   *)
(* local overrides, the demo presets are merged into it, and the engine    *)
(* reads the calculator results with CALC_CONTEXT merged on top.           *)
(***************************************************************************)
DEMO_PRESETS ==
    [demo_name \in {"risk", "hf_ckmh_htn", "dm_ckmh", "af_st"} |->
        CASE demo_name = "risk" ->
                << Item("prevent",
                        DictBlock(<< Item("cvd_10yr", PyFloat(1020)),
                                     Item("ascvd_10yr", PyFloat(810)),
                                     Item("hf_10yr", PyFloat(300)),
                                     Item("cvd_30yr", PyFloat(2800)),
                                     Item("ascvd_30yr", PyFloat(2100)),
                                     Item("hf_30yr", PyFloat(1200)) >>)),
                   Item("condition_modifiers", DictBlock(<< Item("CAD", PyStr("Yes")) >>)),
                   Item("engagement_drivers",
                        DictBlock(<< Item("selfefficacy", PyInt(1)),
                                     Item("proactiveness", PyInt(1)),
                                     Item("trust", PyInt(0)) >>)) >>
          [] demo_name = "hf_ckmh_htn" ->
                << Item("condition_modifiers",
                        DictBlock(<< Item("HF", PyStr("Yes")), Item("CKMH", PyStr("Yes")),
                                     Item("HTN", PyStr("Yes")) >>)),
                   Item("prevent", DictBlock(<< Item("cvd_10yr", PyFloat(520)) >>)),
                   Item("engagement_drivers", DictBlock(<< Item("trust", PyInt(0)) >>)) >>
          [] demo_name = "dm_ckmh" ->
                << Item("condition_modifiers",
                        DictBlock(<< Item("DM", PyStr("Yes")), Item("CKMH", PyStr("Yes")) >>)),
                   Item("prevent", DictBlock(<< Item("cvd_10yr", PyFloat(610)) >>)),
                   Item("engagement_drivers", DictBlock(<< Item("trust", PyInt(0)) >>)),
                   Item("inputs",
                        DictBlock(<< Item("A1c", PyFloat(84000)), Item("egfr", PyInt(42)),
                                     Item("uacr", PyInt(220)) >>)) >>
          [] demo_name = "af_st" ->
                << Item("condition_modifiers",
                        DictBlock(<< Item("AF", PyStr("Yes")), Item("ST", PyStr("Yes")) >>)),
                   Item("prevent", DictBlock(<< Item("cvd_10yr", PyFloat(610)) >>)),
                   Item("engagement_drivers", DictBlock(<< Item("trust", PyInt(-1)) >>)) >>]

\* {**a, **b}: the keys of a in their order, each with the value b gives it
\* when b has the key, then the keys only b has, in b's order
OnlyIn(b, a) == SelectSeq(b, LAMBDA item : item.k \notin Keys(a))

Merge(a, b) ==
    [i \in 1..Len(a) |-> IF a[i].k \in Keys(b) THEN Item(a[i].k, Get(b, a[i].k)) ELSE a[i]]
        \o OnlyIn(b, a)

\* {**a, **b} merged the other way round: the values of a win
MergeKeepingFirst(a, b) == a \o OnlyIn(b, a)

\* a callable of the calculator module that raises when called
RaisingCall == [kind |-> "raises", items |-> << >>]

\* the calculator module: what each of get_results, run_all, results and
\* compute_all returns, and what RESULTS, results, last_results and
\* LAST_RESULTS hold
Calculator(functions, attributes) ==
    [kind |-> "module", functions |-> functions, attributes |-> attributes]
NoCalculator == [kind |-> "none", functions |-> << >>, attributes |-> << >>]

FirstDict(outcomes) ==
    LET dicts == {i \in 1..Len(outcomes) : outcomes[i].kind = "dict"}
    IN  IF dicts = {} THEN MissingBlock
        ELSE outcomes[CHOOSE i \in dicts : \A j \in dicts : i <= j]

try_get_calculator_results ==
    IF ~CALCULATOR_AVAILABLE \/ calculator.kind = "none" THEN << >>
    ELSE IF FirstDict(calculator.functions).kind = "dict"
    THEN FirstDict(calculator.functions).items
    ELSE IF FirstDict(calculator.attributes).kind = "dict"
    THEN FirstDict(calculator.attributes).items
    ELSE << >>

\* get_merged_calc_context with the merge of line 393 the other way round
GetMergedCalculatorWins ==
    LET results == IF CALCULATOR_AVAILABLE THEN try_get_calculator_results ELSE << >>
    IN  IF CALC_CONTEXT.kind = "dict" /\ CALC_CONTEXT.items # << >>
        THEN MergeKeepingFirst(results, CALC_CONTEXT.items)
        ELSE results

get_merged_calc_context ==
    LET results == IF CALCULATOR_AVAILABLE THEN try_get_calculator_results ELSE << >>
    IN  IF CALC_CONTEXT.kind = "dict" /\ CALC_CONTEXT.items # << >>
        THEN Merge(results, CALC_CONTEXT.items)
        ELSE results

\* the value _apply_demo_to_calc_context leaves in CALC_CONTEXT
_apply_demo_to_calc_context(demo_name) ==
    LET preset == IF demo_name \in DOMAIN DEMO_PRESETS THEN DEMO_PRESETS[demo_name] ELSE << >>
        current == IF CALC_CONTEXT.kind # "dict" THEN << >> ELSE CALC_CONTEXT.items
    IN  DictBlock(Merge(current, preset))

(***************************************************************************)
(* convert_questions_to_text_to_bank.py: pasted question blocks are parsed *)
(* into question items tagged with Signatures.  The regular expressions    *)
(* are matched as re matches them, on text without line breaks inside.     *)
(***************************************************************************)
PERSONAS == << "Listener", "Motivator", "Director", "Expert" >>

\* \w, and \b between the positions i and i + 1 of s
WordChars ==
    {CharAt(UpperLetters, i) : i \in 1..Len(UpperLetters)}
        \cup {CharAt(LowerLetters, i) : i \in 1..Len(LowerLetters)}
        \cup {CharAt(Digits, i) : i \in 1..Len(Digits)} \cup {"_"}

IsWordAt(s, i) == i \in 1..Len(s) /\ CharAt(s, i) \in WordChars

WordBoundary(s, i) == IsWordAt(s, i) # IsWordAt(s, i + 1)

StartsAt(s, i, p) == i >= 1 /\ i + Len(p) - 1 <= Len(s) /\ SubSeq(s, i, i + Len(p) - 1) = p

\* the same under re.IGNORECASE
StartsAtIgnoringCase(s, i, p) ==
    /\ i >= 1
    /\ i + Len(p) - 1 <= Len(s)
    /\ Lower(SubSeq(s, i, i + Len(p) - 1)) = Lower(p)

\* the position after words separated by \s*, matched from i on under
\* re.IGNORECASE; 0 when they do not match there
RECURSIVE MatchLabels(_, _, _)
MatchLabels(s, i, labels) ==
    IF ~StartsAtIgnoringCase(s, i, Head(labels)) THEN 0
    ELSE IF Len(labels) = 1 THEN i + Len(Head(labels))
    ELSE MatchLabels(s, FirstNonWs(s, i + Len(Head(labels))), Tail(labels))

\* the position after literal parts separated by \s*, matched from i on;
\* 0 when they do not match there
RECURSIVE MatchSpaced(_, _, _)
MatchSpaced(s, i, parts) ==
    IF ~StartsAt(s, i, Head(parts)) THEN 0
    ELSE IF Len(parts) = 1 THEN i + Len(Head(parts))
    ELSE MatchSpaced(s, FirstNonWs(s, i + Len(Head(parts))), Tail(parts))

\* the positions after literal parts separated by .*, matched from i on
RECURSIVE MatchSpread(_, _, _)
MatchSpread(s, i, parts) ==
    IF parts = << >> THEN {i}
    ELSE UNION {MatchSpread(s, j + Len(Head(parts)), Tail(parts)) :
                    j \in {k \in i..Len(s) : StartsAt(s, k, Head(parts))}}

LowerParts(parts) == [i \in 1..Len(parts) |-> Lower(parts[i])]

\* a search for \b, the parts joined by \s*, and \b in a text in lower case
FindSpaced(low, pattern) ==
    \E i \in 1..Len(low) :
        /\ MatchSpaced(low, i, pattern) # 0
        /\ WordBoundary(low, i - 1)
        /\ WordBoundary(low, MatchSpaced(low, i, pattern) - 1)

\* a search for \b, the parts joined by .*, and \b in a text in lower case
FindSpread(low, pattern) ==
    \E i \in 1..Len(low) :
        /\ StartsAt(low, i, Head(pattern))
        /\ WordBoundary(low, i - 1)
        /\ \E e \in MatchSpread(low, i + Len(Head(pattern)), Tail(pattern)) :
                WordBoundary(low, e - 1)

\* re.search of an alternation of \b...\b phrases, with re.IGNORECASE
SearchWords(text, phrases) ==
    LET low == Lower(text)
    IN  \E phrase \in phrases : FindSpaced(low, << Lower(phrase) >>)

\* a hint: the alternatives whose parts are joined by \s*, those whose parts
\* are joined by .*, and the category
Hint(spaced, spread, cat) == [spaced |-> spaced, spread |-> spread, cat |-> cat]

CATEGORY_HINTS ==
    << Hint({<< "heart,", "kidney,", "and", "metabolic" >>}, {}, "CKM"),
       Hint({}, {<< "cardio", "kidney", "metabolic" >>}, "CKM"),
       Hint({<< "high blood pressure" >>, << "hypertension" >>}, {}, "HTN"),
       Hint({<< "heart failure" >>}, {}, "HF"),
       Hint({<< "coronary artery disease" >>, << "CAD" >>}, {}, "CAD"),
       Hint({<< "atrial fibrillation" >>, << "AFib" >>}, {}, "AFIB"),
       Hint({<< "stroke" >>}, {}, "STROKE"),
       Hint({<< "diabetes" >>}, {}, "DM") >>

\* the hints as re.IGNORECASE reads them
HintsIgnoringCase ==
    [i \in 1..Len(CATEGORY_HINTS) |->
        Hint({LowerParts(parts) : parts \in CATEGORY_HINTS[i].spaced},
             {LowerParts(parts) : parts \in CATEGORY_HINTS[i].spread},
             CATEGORY_HINTS[i].cat)]

HintFound(hint, low) ==
    \/ \E pattern \in hint.spaced : FindSpaced(low, pattern)
    \/ \E pattern \in hint.spread : FindSpread(low, pattern)

detect_category_from_line(line, current) ==
    LET low == Lower(line)
        found == {i \in 1..Len(HintsIgnoringCase) : HintFound(HintsIgnoringCase[i], low)}
    IN  IF found = {} THEN current
        ELSE CATEGORY_HINTS[CHOOSE i \in found : \A j \in found : i <= j].cat

\* str.strip(chars)
RECURSIVE FirstOutside(_, _, _)
FirstOutside(s, chars, i) ==
    IF i > Len(s) THEN i
    ELSE IF CharAt(s, i) \in chars THEN FirstOutside(s, chars, i + 1) ELSE i

RECURSIVE LastOutside(_, _, _)
LastOutside(s, chars, i) ==
    IF i < 1 THEN i
    ELSE IF CharAt(s, i) \in chars THEN LastOutside(s, chars, i - 1) ELSE i

StripChars(s, chars) == SubSeq(s, FirstOutside(s, chars, 1), LastOutside(s, chars, Len(s)))

\* the quotation marks: the typographic pair is written as the ASCII mark
QuoteChars == {"\""}

clean_quotes(s) == Strip(StripChars(Strip(s), QuoteChars))

\* a failed match, and a match with its groups
NoMatch == [matched |-> FALSE, head |-> "", rest |-> ""]
Match(head, rest) == [matched |-> TRUE, head |-> head, rest |-> rest]

RECURSIVE FirstNonDigit(_, _)
FirstNonDigit(s, i) ==
    IF i > Len(s) THEN i
    ELSE IF IndexIn(Digits, CharAt(s, i)) > 0 THEN FirstNonDigit(s, i + 1) ELSE i

\* QUESTION_RE.match(line): head is the number, rest is q1 or q2
QUESTION_RE(line) ==
    LET start == FirstNonWs(line, 1)
        number == FirstNonWs(line, start + Len("Question"))
        after == FirstNonDigit(line, number)
        colon == FirstNonWs(line, after)
        text == FirstNonWs(line, colon + 1)
        last == LastNonWs(line, Len(line))
    IN  IF /\ StartsAtIgnoringCase(line, start, "Question")
           /\ after > number
           /\ StartsAt(line, colon, ":")
           /\ text <= last
        THEN IF /\ last - text >= 2
                /\ CharAt(line, text) \in QuoteChars
                /\ CharAt(line, last) \in QuoteChars
             THEN Match(SubSeq(line, number, after - 1), SubSeq(line, text + 1, last - 1))
             ELSE Match(SubSeq(line, number, after - 1), SubSeq(line, text, last))
        ELSE NoMatch

BulletChars == {"-", "*", "_"}

\* PERSONA_RE.match(line): head is the persona as written, rest what follows
PERSONA_RE(line) ==
    LET start == FirstNonWs(line, 1)
        name == IF start <= Len(line) /\ CharAt(line, start) \in BulletChars
                THEN FirstNonWs(line, start + 1)
                ELSE start
        named == {i \in 1..Len(PERSONAS) :
                    /\ StartsAtIgnoringCase(line, name, PERSONAS[i])
                    /\ WordBoundary(line, name + Len(PERSONAS[i]) - 1)}
    IN  IF named = {} THEN NoMatch
        ELSE LET persona == PERSONAS[CHOOSE i \in named : TRUE]
                 after == name + Len(persona)
             IN  Match(SubSeq(line, name, after - 1),
                       SubSeq(line, FirstNonWs(line, after), Len(line)))

\* a line of words separated by \s*, a colon, and a text that is not empty
Labelled(line, labels) ==
    LET start == FirstNonWs(line, 1)
        after == MatchLabels(line, start, labels)
        colon == FirstNonWs(line, after)
        text == FirstNonWs(line, colon + 1)
    IN  IF after # 0 /\ StartsAt(line, colon, ":") /\ text <= Len(line)
        THEN Match(SubSeq(line, start, after - 1), SubSeq(line, text, Len(line)))
        ELSE NoMatch

ACTION_RE(line) == Labelled(line, << "Action", "Step" >>)
WHY_RE(line) == Labelled(line, << "Why" >>)

BEHAVIORAL_CORE_BY_CATEGORY ==
    << Item("CKM", "PC"), Item("HTN", "BP"), Item("HF", "SY"), Item("CAD", "PC"),
       Item("AFIB", "MA"), Item("STROKE", "PC"), Item("DM", "GL"), Item("GENERAL", "PC") >>

CONDITION_MODIFIERS_BY_CATEGORY ==
    << Item("CKM", << "CKM" >>), Item("HTN", << "HT" >>), Item("HF", << "HF" >>),
       Item("CAD", << "CAD" >>), Item("AFIB", << "AF" >>), Item("STROKE", << "STK" >>),
       Item("DM", << "DM" >>), Item("GENERAL", << >>) >>

ENGAGEMENT_KEYWORDS ==
    << Item("HL", << "explain", "what is", "what does", "mean", "confusing", "understand",
                     "numbers", "chart" >>),
       Item("TR", << "trust", "side effects", "why am i on", "medications", "scared", "fear",
                     "nervous" >>),
       Item("SE", << "can i", "still", "safely", "start", "begin", "exercise", "walk",
                     "manage this" >>),
       Item("GO", << "goal", "target", "track", "monitor", "plan", "routine", "progress" >>),
       Item("PR", << "prevent", "avoid", "stay out of the hospital", "reduce risk", "early",
                     "proactive" >>),
       Item("ID", << "still live my life", "independence", "routine", "travel",
                     "vacation" >>),
       Item("FI", << "afford", "access", "food", "recipe", "groceries", "budget" >>) >>

\* the rules and plans are held by their codes; each code has one text
DEFAULT_SECURITY_RULES_BY_CATEGORY ==
    << Item("HTN", << "SR-HTN-CRISIS" >>), Item("HF", << "SR-HF-FLARE" >>),
       Item("CAD", << "SR-CAD-CP" >>), Item("AFIB", << "SR-AFIB-STROKE" >>),
       Item("STROKE", << "SR-STROKE-FAST" >>), Item("DM", << "SR-DM-LOW" >>),
       Item("CKM", << "SR-CKM-SX" >>), Item("GENERAL", << >>) >>

SECURITY_TRIGGERS ==
    << Item({"chest pain"}, "SR-CP-STOP"),
       Item({"shortness of breath", "breathless"}, "SR-DYSPNEA"),
       Item({"exercise", "walk", "activity"}, "SR-EX-STOP") >>

DEFAULT_ACTION_PLANS_BY_CATEGORY ==
    << Item("HTN", << "AP-HTN-HOME" >>), Item("HF", << "AP-HF-TRACK" >>),
       Item("CAD", << "AP-CAD-SEC" >>), Item("AFIB", << "AP-AFIB-PLAN" >>),
       Item("STROKE", << "AP-STK-REHAB" >>), Item("DM", << "AP-DM-PLAN" >>),
       Item("CKM", << "AP-CKM-COORD" >>), Item("GENERAL", << "AP-GEN-STEP" >>) >>

REHAB_TRIGGER == {"cardiac rehab", "rehab", "exercise", "walking", "activity"}

Source(source_title, source_url) == [source_title |-> source_title, source_url |-> source_url]

DEFAULT_SOURCES_BY_CATEGORY ==
    << Item("HTN", Source("American Heart Association - High Blood Pressure",
                          "https://www.heart.org/en/health-topics/high-blood-pressure")),
       Item("HF", Source("American Heart Association - Heart Failure",
                         "https://www.heart.org/en/health-topics/heart-failure")),
       Item("CAD", Source("American Heart Association - Coronary Artery Disease",
                          "https://www.heart.org/en/health-topics/heart-attack/about-heart-attacks")),
       Item("AFIB", Source("American Heart Association - Atrial Fibrillation (AFib)",
                           "https://www.heart.org/en/health-topics/atrial-fibrillation")),
       Item("STROKE", Source("American Stroke Association - Stroke",
                             "https://www.stroke.org/en/about-stroke")),
       Item("DM", Source("American Heart Association - Diabetes",
                         "https://www.heart.org/en/health-topics/diabetes")),
       Item("CKM", Source("American Heart Association - Cardio-Kidney-Metabolic Health",
                          "https://www.heart.org/en/professional/quality-improvement/cardio-kidney-metabolic-health")),
       Item("GENERAL", Source("American Heart Association - Healthy Living",
                              "https://www.heart.org/en/healthy-living")) >>

\* d.get(key, default), d.values() and d[key] = value
GetOr(items, key, default) ==
    IF key \in Keys(items)
    THEN items[CHOOSE i \in 1..Len(items) : items[i].k = key].v
    ELSE default

Values(items) == [i \in 1..Len(items) |-> items[i].v]

Put(items, key, value) ==
    IF key \in Keys(items)
    THEN [i \in 1..Len(items) |-> IF items[i].k = key THEN Item(key, value) ELSE items[i]]
    ELSE Append(items, Item(key, value))

Max(a, b) == IF a >= b THEN a ELSE b

\* the text the keywords are looked up in
Blob(question_text, responses) ==
    Lower(question_text \o " " \o Join(" ", Values(responses)))

KeywordHits(blob) ==
    [i \in 1..Len(ENGAGEMENT_KEYWORDS) |->
        Item(ENGAGEMENT_KEYWORDS[i].k,
             IF \E j \in 1..Len(ENGAGEMENT_KEYWORDS[i].v) :
                    Contains(blob, ENGAGEMENT_KEYWORDS[i].v[j])
             THEN 1 ELSE 0)]

\* infer_engagement_drivers without the persona-based nudges of lines 202-205
InferKeywordsOnly(question_text, responses) == KeywordHits(Blob(question_text, responses))

infer_engagement_drivers(question_text, responses) ==
    LET blob == Blob(question_text, responses)
        drivers == KeywordHits(blob)
        nudged ==
            IF Strip(GetOr(responses, "Listener", "")) # ""
            THEN Put(drivers, "TR",
                     IF Contains(blob, "scared") \/ Contains(blob, "overwhelming")
                     THEN Max(GetOr(drivers, "TR", 0), 1)
                     ELSE GetOr(drivers, "TR", 0))
            ELSE drivers
    IN  IF Strip(GetOr(responses, "Motivator", "")) # ""
        THEN Put(nudged, "SE", Max(GetOr(nudged, "SE", 0), 1))
        ELSE nudged

\* the codes of rules with one more code, unless it is among them already
WithCode(codes, code) == IF code \in Range(codes) THEN codes ELSE Append(codes, code)

RECURSIVE Triggered(_, _, _)
Triggered(rules, question_text, i) ==
    IF i > Len(SECURITY_TRIGGERS) THEN rules
    ELSE Triggered(IF SearchWords(question_text, SECURITY_TRIGGERS[i].k)
                   THEN WithCode(rules, SECURITY_TRIGGERS[i].v)
                   ELSE rules,
                   question_text, i + 1)

build_security_rules(category, question_text) ==
    Triggered(GetOr(DEFAULT_SECURITY_RULES_BY_CATEGORY, category, << >>), question_text, 1)

build_action_plans(category, question_text) ==
    LET plans == GetOr(DEFAULT_ACTION_PLANS_BY_CATEGORY, category, << >>)
    IN  IF category \in {"CAD", "HF", "AFIB", "CKM"} /\ SearchWords(question_text, REHAB_TRIGGER)
        THEN WithCode(plans, "AP-REHAB")
        ELSE plans

\* the three hooks with their enabled flags
build_scoring_hooks(category, question_text) ==
    [mylifecheck |-> TRUE,
     prevent |-> TRUE,
     chads_vasc |-> category = "AFIB" \/ SearchWords(question_text, {"blood thinner", "stroke"})]

signatures_for_item(category, question_text, responses) ==
    [kind |-> "dict",
     behavioral_core |-> GetOr(BEHAVIORAL_CORE_BY_CATEGORY, category, "PC"),
     condition_modifiers |-> GetOr(CONDITION_MODIFIERS_BY_CATEGORY, category, << >>),
     engagement_drivers |-> infer_engagement_drivers(question_text, responses),
     security_rules |-> build_security_rules(category, question_text),
     action_plans |-> build_action_plans(category, question_text),
     scoring_hooks |-> build_scoring_hooks(category, question_text)]

\* signatures is None until flush sets it
NoSignatures ==
    [kind |-> "none", behavioral_core |-> "", condition_modifiers |-> << >>,
     engagement_drivers |-> << >>, security_rules |-> << >>, action_plans |-> << >>,
     scoring_hooks |-> [mylifecheck |-> FALSE, prevent |-> FALSE, chads_vasc |-> FALSE]]

QuestionItem(id, category, question_text, responses) ==
    [id |-> id, category |-> category, question |-> question_text, responses |-> responses,
     action_step |-> "", why_it_matters |-> "", signatures |-> NoSignatures,
     source_title |-> "", source_url |-> ""]

\* f"{n:02d}"
TwoDigits(n) == IF n < 10 THEN "0" \o NatToStr(n) ELSE NatToStr(n)

\* make_id with one counter for all categories
MakeIdOneCounter(counters, cat) ==
    LET n == GetOr(counters, "GENERAL", 0) + 1
    IN  [counters |-> Put(counters, "GENERAL", n), id |-> cat \o "-" \o TwoDigits(n)]

\* make_id: the counters after the call and the id
make_id(counters, cat) ==
    LET n == GetOr(counters, cat, 0) + 1
    IN  [counters |-> Put(counters, cat, n), id |-> cat \o "-" \o TwoDigits(n)]

\* the locals of parse_blocks; current is << >> for None and current_persona
\* is "" for None
Locals(items, category, current, current_persona, counters) ==
    [items |-> items, category |-> category, current |-> current,
     current_persona |-> current_persona, counters |-> counters]

RECURSIVE WithDefaults(_, _)
WithDefaults(responses, i) ==
    IF i > Len(PERSONAS) THEN responses
    ELSE WithDefaults(IF PERSONAS[i] \in Keys(responses) THEN responses
                      ELSE Append(responses, Item(PERSONAS[i], "")),
                      i + 1)

Flushed(item, responses) ==
    LET signed == [item EXCEPT !.responses = responses,
                               !.signatures = signatures_for_item(item.category, item.question,
                                                                  responses)]
        src == GetOr(DEFAULT_SOURCES_BY_CATEGORY, item.category,
                     GetOr(DEFAULT_SOURCES_BY_CATEGORY, "GENERAL", Source("", "")))
    IN  IF signed.source_title = "" /\ signed.source_url = ""
        THEN [signed EXCEPT !.source_title = src.source_title, !.source_url = src.source_url]
        ELSE signed

\* flush without the setdefault loop of lines 279-280
FlushAsGiven(locals) ==
    IF locals.current = << >> THEN locals
    ELSE [locals EXCEPT
            !.items = Append(@, Flushed(locals.current[1], locals.current[1].responses)),
            !.current = << >>,
            !.current_persona = ""]

flush(locals) ==
    IF locals.current = << >> THEN locals
    ELSE [locals EXCEPT
            !.items = Append(@, Flushed(locals.current[1],
                                        WithDefaults(locals.current[1].responses, 1))),
            !.current = << >>,
            !.current_persona = ""]

\* one turn of the loop of lines 296-343
ParseLine(locals, raw_line) ==
    LET line == Strip(raw_line)
        category == detect_category_from_line(line, locals.category)
        seen == [locals EXCEPT !.category = category]
        qm == QUESTION_RE(line)
        pm == PERSONA_RE(line)
        am == ACTION_RE(line)
        wm == WHY_RE(line)
        open == seen.current # << >>
    IN  IF line = "" THEN locals
        ELSE IF qm.matched
        THEN LET flushed == flush(seen)
                 made == make_id(flushed.counters, category)
             IN  [flushed EXCEPT
                    !.counters = made.counters,
                    !.current = << QuestionItem(made.id, category, clean_quotes(qm.rest),
                                                << >>) >>,
                    !.current_persona = ""]
        ELSE IF pm.matched /\ open
        THEN [seen EXCEPT
                !.current[1].responses = Put(@, Capitalized(Lower(pm.head)),
                                             clean_quotes(pm.rest)),
                !.current_persona = Capitalized(Lower(pm.head))]
        ELSE IF am.matched /\ open
        THEN [seen EXCEPT !.current[1].action_step = clean_quotes(am.rest),
                          !.current_persona = ""]
        ELSE IF wm.matched /\ open
        THEN [seen EXCEPT !.current[1].why_it_matters = clean_quotes(wm.rest),
                          !.current_persona = ""]
        ELSE IF open /\ seen.current_persona # ""
        THEN [seen EXCEPT
                !.current[1].responses =
                    Put(@, seen.current_persona,
                        Strip(GetOr(@, seen.current_persona, "") \o " "
                                \o clean_quotes(line)))]
        ELSE seen

RECURSIVE ParseLines(_, _, _)
ParseLines(locals, lines, i) ==
    IF i > Len(lines) THEN locals
    ELSE ParseLines(ParseLine(locals, lines[i]), lines, i + 1)

parse_blocks(lines) ==
    flush(ParseLines(Locals(<< >>, "GENERAL", << >>, "", << >>), lines, 1)).items

(***************************************************************************)
(* combined_calculator.py: CKM staging.  The three subclinical history     *)
(* flags are module globals the function reads.                            *)
(***************************************************************************)
Yes(flag) == Lower(Strip(flag)) = "yes"

\* a comparison of a float, held in ten-thousandths, with a literal given
\* in thousandths
Thousandths(k) == k * (FloatScale \div 1000)

\* float('nan'): int() of it raises, float() returns it, and every ordering
\* comparison with it is false
NaN == [t |-> "float", b |-> FALSE, n |-> 0, s |-> "nan"]

IsNaN(x) == x = NaN

\* float(x) where it does not raise
Float(x) == [nan |-> IsNaN(x), n |-> ToFloat(x).n]

Lt(a, k) == ~a.nan /\ a.n < k

Le(a, k) == ~a.nan /\ a.n <= k

Gt(a, k) == ~a.nan /\ a.n > k

Ge(a, k) == ~a.nan /\ a.n >= k

\* int() or float() raises on one of the five numeric arguments
StagingRaises(BMI, fasting_blood_sugar, met_score, risk_score, MLC_score) ==
    \/ IsNaN(met_score)
    \/ ~ToInt(met_score).ok
    \/ \E x \in {MLC_score, risk_score, fasting_blood_sugar, BMI} : ~ToFloat(x).ok

\* determine_ckm_stage with stage 1 kept for a BMI above 25 only
DetermineCkmStageAbove25(BMI, fasting_blood_sugar, met_score, risk_score, AMI, stroke_or_tia, PAD, PCI, CABG, heart_failure, MLC_score, ckd_stage) ==
    LET met == ToInt(met_score).n
        mlc == Float(MLC_score)
        risk == Float(risk_score)
        sugar == Float(fasting_blood_sugar)
        bmi == Float(BMI)
        has_clinical_cvd ==
            \E x \in {AMI, stroke_or_tia, PAD, PCI, CABG, heart_failure} : Yes(x)
        subclinical_cvd ==
            \E x \in {coronary_artery_disease, coronary_artery_calcium, stable_angina} : Yes(x)
    IN  IF has_clinical_cvd THEN PyInt(4)
        ELSE IF subclinical_cvd \/ Ge(risk, Thousandths(75)) \/ Lt(mlc, 50 * FloatScale)
        THEN PyInt(3)
        ELSE IF \/ met >= 3
                \/ Lt(mlc, 80 * FloatScale)
                \/ Gt(sugar, 100 * FloatScale)
                \/ Ge(risk, Thousandths(75))
                \/ (ckd_stage.t # "none" /\ Ge(Float(ckd_stage), 2 * FloatScale))
        THEN PyInt(2)
        ELSE IF /\ Gt(bmi, 25 * FloatScale)
                /\ Ge(mlc, 80 * FloatScale)
                /\ met < 3
                /\ Le(sugar, 100 * FloatScale)
        THEN PyInt(1)
        ELSE IF /\ Lt(bmi, 25 * FloatScale)
                /\ met < 3
                /\ Le(sugar, 100 * FloatScale)
                /\ Lt(risk, Thousandths(75))
        THEN PyInt(0)
        ELSE PyNone

determine_ckm_stage(BMI, fasting_blood_sugar, met_score, risk_score, AMI, stroke_or_tia, PAD, PCI, CABG, heart_failure, MLC_score, ckd_stage) ==
    LET met == ToInt(met_score).n
        mlc == Float(MLC_score)
        risk == Float(risk_score)
        sugar == Float(fasting_blood_sugar)
        bmi == Float(BMI)
        has_clinical_cvd ==
            \E x \in {AMI, stroke_or_tia, PAD, PCI, CABG, heart_failure} : Yes(x)
        subclinical_cvd ==
            \E x \in {coronary_artery_disease, coronary_artery_calcium, stable_angina} : Yes(x)
    IN  IF has_clinical_cvd THEN PyInt(4)
        ELSE IF subclinical_cvd \/ Ge(risk, Thousandths(75)) \/ Lt(mlc, 50 * FloatScale)
        THEN PyInt(3)
        ELSE IF \/ met >= 3
                \/ Lt(mlc, 80 * FloatScale)
                \/ Gt(sugar, 100 * FloatScale)
                \/ Ge(risk, Thousandths(75))
                \/ (ckd_stage.t # "none" /\ Ge(Float(ckd_stage), 2 * FloatScale))
        THEN PyInt(2)
        ELSE IF /\ Ge(bmi, 25 * FloatScale)
                /\ Ge(mlc, 80 * FloatScale)
                /\ met < 3
                /\ Le(sugar, 100 * FloatScale)
        THEN PyInt(1)
        ELSE IF /\ Lt(bmi, 25 * FloatScale)
                /\ met < 3
                /\ Le(sugar, 100 * FloatScale)
                /\ Lt(risk, Thousandths(75))
        THEN PyInt(0)
        ELSE PyNone

(***************************************************************************)
(* Inputs.  The calculator context, the question and the base answer are   *)
(* chosen by the caller; each specification draws them from a finite set.  *)
(***************************************************************************)
\* dicts of at most n items over the given keys and values, in every
\* insertion order
RECURSIVE Dicts(_, _, _)
Dicts(keys, values, n) ==
    IF n = 0 THEN {<< >>}
    ELSE LET shorter == Dicts(keys, values, n - 1)
         IN  shorter \cup
             UNION {{Append(d, Item(k, v)) : k \in keys \ Keys(d), v \in values} :
                    d \in {e \in shorter : Len(e) = n - 1}}

RECURSIVE Strings(_, _)
Strings(alphabet, n) ==
    IF n = 0 THEN {""}
    ELSE LET shorter == Strings(alphabet, n - 1)
         IN  shorter \cup {t \o c : t \in {u \in shorter : Len(u) = n - 1}, c \in alphabet}

\* a token in lower case, upper case, capitalised and padded with blanks
Spellings(tokens) ==
    UNION {{tok, Upper(tok), Capitalized(tok), " " \o Capitalized(tok) \o "\n"} : tok \in tokens}

SmallInts == (-MaxAbsInt)..MaxAbsInt

ConditionKeys == {"CAD", "AF", "HF", "HTN", "CKMH", "ST", " cad"}
YesNo == {PyStr("Yes"), PyStr("No")}

RawFlags ==
    {PyNone, PyBool(TRUE), PyBool(FALSE), PyList("[]"), PyList("['Yes']")}
        \cup {PyInt(k) : k \in SmallInts}
        \cup {PyFloat(k) : k \in {0, 5000, -1}}
        \cup {PyStr(t) : t \in Spellings(FalseTokens \cup TrueTokens)}
        \cup {PyStr(t) : t \in {" ", "\n\t", "maybe", "active", "2", "yes please", "nope", "?"}}

DriverKeys == {"trust", "selfefficacy", "proactiveness", "Trust", "mood"}
RawDrivers ==
    {PyNone, PyBool(TRUE), PyBool(FALSE), PyList("[1]")}
        \cup {PyInt(k) : k \in SmallInts}
        \cup {PyFloat(k) : k \in {19000, -5000, -15000, 10000}}
        \cup {PyStr(t) : t \in {"1", "-1", " 1 ", "+1", "0", "2", "1.0", "low", ""}}

\* 10-year and 30-year risks around the tier thresholds
RawRisks ==
    {PyNone, PyBool(TRUE), PyList("[0.2]"), PyInt(0), PyInt(1)}
        \cup {PyFloat(k) : k \in {0, 499, 500, 501, 520, 610, 749, 750, 751, 1000, 1020,
                                  1999, 2000, 2800, 3999, 4000, 10000}}
        \cup {PyStr(t) : t \in {"0.075", "0.0751", "high", "", "n/a", "7.5%"}}

Horizons == {"10yr", "30yr", "10YR", "10", "lifetime"}

Risk(v) == DictBlock(<< Item("cvd_10yr", v) >>)

DemoBase == PyStr("Base answer.")

IdleBuilders ==
    /\ question = Question(NoTags)
    /\ base = DemoBase
    /\ calc_context = Context(MissingBlock, MissingBlock, MissingBlock)
    /\ result = NoResult

NoReturn == [fn |-> "none", v |-> PyNone]

IdleNormalisers ==
    /\ raw = PyNone
    /\ horizon = "10yr"
    /\ ret = NoReturn

NoCall == [fn |-> "none", question |-> Question(NoTags), base |-> PyNone,
           calc_context |-> Context(MissingBlock, MissingBlock, MissingBlock),
           out |-> NoResult, between |-> 0, edited |-> FALSE]

\* no call of get_merged_calc_context yet
NoMerged == [fn |-> "none", out |-> << >>]

\* signatures_engine as loaded without the calculator module
IdleEngine ==
    /\ CALC_CONTEXT = DictBlock(<< >>)
    /\ CALCULATOR_AVAILABLE = FALSE
    /\ calculator = NoCalculator
    /\ applied = << >>
    /\ merged = NoMerged

NotParsed == [fn |-> "none", items |-> << >>]
NoInference == [fn |-> "none", question_text |-> "", responses |-> << >>, drivers |-> << >>]

IdleConverter ==
    /\ input_lines = << >>
    /\ questions = NotParsed
    /\ inferred = NoInference

\* the arguments of determine_ckm_stage
CkmArguments(BMI, fasting_blood_sugar, met_score, risk_score, history, MLC_score, ckd_stage) ==
    [BMI |-> BMI, fasting_blood_sugar |-> fasting_blood_sugar, met_score |-> met_score,
     risk_score |-> risk_score, AMI |-> history.AMI, stroke_or_tia |-> history.stroke_or_tia,
     PAD |-> history.PAD, PCI |-> history.PCI, CABG |-> history.CABG,
     heart_failure |-> history.heart_failure, MLC_score |-> MLC_score,
     ckd_stage |-> ckd_stage]

NoHistory ==
    [AMI |-> "No", stroke_or_tia |-> "No", PAD |-> "No", PCI |-> "No", CABG |-> "No",
     heart_failure |-> "No"]

NoStage == [fn |-> "none", raised |-> FALSE, v |-> PyNone]

IdleStaging ==
    /\ ckm_arguments = CkmArguments(PyInt(22), PyInt(95), PyInt(0), PyFloat(500), NoHistory,
                                 PyInt(0), PyNone)
    /\ coronary_artery_disease = "No"
    /\ coronary_artery_calcium = "No"
    /\ stable_angina = "No"
    /\ ckm_stage = NoStage

\* answer_Layers as loaded: the catalogs hold their literals and no call has
\* been made
LayersLoaded ==
    /\ CONDITION_ADDONS = ConditionAddonsLiteral
    /\ ENGAGEMENT_ADDONS = EngagementAddonsLiteral
    /\ shared = {}
    /\ earlier = NoCall

\* the modules as loaded
Loaded ==
    /\ LayersLoaded
    /\ IdleEngine
    /\ IdleConverter
    /\ IdleStaging

\* the drivers and the risk of the two demonstrated profiles: no driver with
\* a 10% risk, and low trust with a 5% risk
Profiles ==
    {[ed |-> MissingBlock, pv |-> Risk(PyFloat(1000))],
     [ed |-> DictBlock(<< Item("trust", PyInt(-1)) >>), pv |-> Risk(PyFloat(500))]}

\* contexts with several conditions, in every key order, with the demo
\* presets of signatures_engine.DEMO_PRESETS among them
Init ==
    /\ question = Question(NoTags)
    /\ base = DemoBase
    /\ \E cm \in Dicts(ConditionKeys, YesNo, MaxConds), p \in Profiles :
            calc_context = Context(DictBlock(cm), p.ed, p.pv)
    /\ result = NoResult
    /\ IdleNormalisers
    /\ Loaded
    /\ ANSWER_LAYERS_AVAILABLE = FALSE

\* one condition flag of every raw form
InitFlag ==
    /\ question \in {Question(NoTags), Question(Tags(<< " cad", "" >>))}
    /\ base = DemoBase
    /\ \E k \in {"CAD", "HTN"}, v \in RawFlags :
            calc_context = Context(DictBlock(<< Item(k, v) >>), MissingBlock, MissingBlock)
    /\ result = NoResult
    /\ IdleNormalisers
    /\ Loaded
    /\ ANSWER_LAYERS_AVAILABLE = FALSE

\* engagement drivers: one driver of every raw form, or several in every
\* insertion order
InitDriver ==
    /\ question = Question(NoTags)
    /\ base = DemoBase
    /\ \E ed \in Dicts(DriverKeys, RawDrivers, 1)
                \cup Dicts(DriverKeys, {PyInt(-1), PyInt(0), PyInt(1)}, MaxDrivers) :
            calc_context = Context(MissingBlock, DictBlock(ed), MissingBlock)
    /\ result = NoResult
    /\ IdleNormalisers
    /\ Loaded
    /\ ANSWER_LAYERS_AVAILABLE = FALSE

\* base answers of every shape, over a few contexts
InitBase ==
    /\ question = Question(NoTags)
    /\ base \in {PyNone, PyInt(5)} \cup {PyStr(t) : t \in Strings({" ", "\n", "a"}, MaxBaseLen)}
    /\ \E cm \in {<< >>, << Item("CAD", PyStr("Yes")) >>, << Item("CAD", PyStr("No")) >>},
          ed \in {MissingBlock, OtherBlock, DictBlock(<< Item("trust", PyInt(-1)) >>)} :
            calc_context = Context(DictBlock(cm), ed, MissingBlock)
    /\ result = NoResult
    /\ IdleNormalisers
    /\ Loaded
    /\ ANSWER_LAYERS_AVAILABLE = FALSE

\* a context that is None, and one that is an object with the blocks as
\* attributes instead of keys
NoContext == [Context(MissingBlock, MissingBlock, MissingBlock) EXCEPT !.kind = "none"]
ObjectContext ==
    [Context(DictBlock(<< Item("CAD", PyStr("Yes")) >>),
             DictBlock(<< Item("trust", PyInt(-1)) >>),
             MissingBlock) EXCEPT !.kind = "other"]

\* a question record without signatures
Unsigned_question ==
    [kind |-> "dict", signatures |-> [kind |-> "missing", condition_modifiers |-> NoTags]]
\* a question that is None
NoQuestion ==
    [kind |-> "none", signatures |-> [kind |-> "missing", condition_modifiers |-> NoTags]]

EdgeConditions ==
    {MissingBlock, OtherBlock}
        \cup {DictBlock(cm) : cm \in Dicts({"CAD", "XX", "hf"}, {PyStr("Yes")}, MaxEdgeConds)}

EdgeDrivers ==
    {MissingBlock, OtherBlock}
        \cup {DictBlock(ed) :
                ed \in Dicts({"trust", "mood"}, {PyInt(-1), PyInt(0), PyStr("0")}, MaxDrivers)}

\* contexts with missing or malformed parts, codes the catalogs do not hold
\* and drivers at zero, under questions with and without condition tags
InitEdge ==
    /\ question \in {Question(NoTags), Question(Tags(<< "hf" >>)), Unsigned_question}
    /\ base \in {DemoBase, PyStr(" b\n")}
    /\ calc_context \in
            {NoContext, ObjectContext}
                \cup {Context(cm, ed, pv) : cm \in EdgeConditions, ed \in EdgeDrivers,
                                            pv \in {MissingBlock, DictBlock(<< >>)}}
    /\ result = NoResult
    /\ IdleNormalisers
    /\ Loaded
    /\ ANSWER_LAYERS_AVAILABLE = FALSE

\* the requests a caller repeats
FrameArguments ==
    {[question |-> q, base |-> DemoBase, calc_context |-> Context(cm, ed, MissingBlock)] :
        q \in {Question(NoTags), Question(Tags(<< "HF" >>))},
        cm \in {MissingBlock, DictBlock(<< Item("CAD", PyStr("Yes")) >>)},
        ed \in {MissingBlock, DictBlock(<< Item("trust", PyInt(-1)) >>)}}

InitFrame ==
    /\ \E a \in FrameArguments :
            /\ question = a.question
            /\ base = a.base
            /\ calc_context = a.calc_context
    /\ result = NoResult
    /\ IdleNormalisers
    /\ Loaded
    /\ ANSWER_LAYERS_AVAILABLE = FALSE

\* the engine's call: a response text, a question record, and calculator
\* results that may hold a flag str() fails on; the import of line 97 may
\* have failed
InitWrap ==
    /\ question \in {Question(NoTags), NoQuestion}
    /\ base \in {DemoBase, PyStr(" Base answer.\n"), PyStr(" ")}
    /\ calc_context \in
            {NoContext}
                \cup {Context(DictBlock(cm), ed, MissingBlock) :
                        cm \in Dicts({"CAD", "HF"}, YesNo \cup {PyObject}, MaxEdgeConds),
                        ed \in {MissingBlock, DictBlock(<< Item("trust", PyInt(-1)) >>)}}
    /\ result = NoResult
    /\ IdleNormalisers
    /\ Loaded
    /\ ANSWER_LAYERS_AVAILABLE \in BOOLEAN

InitNorm ==
    /\ IdleBuilders
    /\ raw \in RawFlags \cup RawDrivers \cup RawRisks
    /\ horizon \in Horizons
    /\ ret = NoReturn
    /\ Loaded
    /\ ANSWER_LAYERS_AVAILABLE = FALSE

\* answer_Layers and the normalisers left alone
IdleLayers ==
    /\ IdleBuilders
    /\ IdleNormalisers
    /\ LayersLoaded
    /\ ANSWER_LAYERS_AVAILABLE = FALSE

\* results a calculator module can expose
CalculatorResults ==
    {<< Item("prevent", DictBlock(<< Item("cvd_10yr", PyFloat(2000)),
                                     Item("hf_10yr", PyFloat(900)) >>)),
        Item("scores", DictBlock(<< Item("mylifecheck", PyInt(72)) >>)) >>,
     << Item("condition_modifiers", DictBlock(<< Item("HTN", PyStr("Yes")) >>)) >>}

\* the calculator module: missing, or exposing get_results() and RESULTS
Calculators ==
    {NoCalculator}
        \cup {Calculator(<< f, MissingBlock, MissingBlock, MissingBlock >>,
                         << g, MissingBlock, MissingBlock, MissingBlock >>) :
                f \in {MissingBlock, RaisingCall, OtherBlock}
                        \cup {DictBlock(r) : r \in CalculatorResults},
                g \in {MissingBlock} \cup {DictBlock(r) : r \in CalculatorResults}}

\* the demo names of the command line, and a name that is no preset
DemoNames == DOMAIN DEMO_PRESETS \cup {"demo"}

InitContext ==
    /\ IdleLayers
    /\ CALC_CONTEXT = DictBlock(<< >>)
    /\ calculator \in Calculators
    /\ CALCULATOR_AVAILABLE = (calculator.kind = "module")
    /\ applied = << >>
    /\ merged = NoMerged
    /\ IdleConverter
    /\ IdleStaging

\* the lines of a pasted file, as readlines() returns them
PastedLines ==
    {"High Blood Pressure\n",
     "Question 1: \"What is my goal?\"\n",
     "question 2 : Can I walk after a stroke?\n",
     "Listener: I hear you.\n",
     "- MOTIVATOR You can.\n",
     "Action Step: Walk daily.\n",
     "Why: It helps.\n",
     " and more \n",
     "Question 3:\n"}

RECURSIVE LineSequences(_)
LineSequences(n) ==
    IF n = 0 THEN {<< >>}
    ELSE LET shorter == LineSequences(n - 1)
         IN  shorter \cup {Append(s, l) : s \in {t \in shorter : Len(t) = n - 1},
                                          l \in PastedLines}

InitConvert ==
    /\ IdleLayers
    /\ IdleEngine
    /\ input_lines \in LineSequences(MaxLines)
    /\ questions = NotParsed
    /\ inferred = NoInference
    /\ IdleStaging

\* question texts and responses with and without keywords, with a keyword
\* that only the joined text holds, and with personas left out
QuestionTexts == {"What is my goal?", "Why am I on this?", "How much can", "Is it OK?"}

ResponseSets ==
    {listener \o motivator \o director :
        listener \in {<< >>} \cup {<< Item("Listener", t) >> :
                        t \in {"", " ", "I hear you.", "This feels overwhelming.", "i do it."}},
        motivator \in {<< >>} \cup {<< Item("Motivator", t) >> :
                        t \in {"", "You got this.", "Start small."}},
        director \in {<< >>, << Item("Director", "Track it.") >>}}

InitInfer ==
    /\ IdleLayers
    /\ IdleEngine
    /\ input_lines = << >>
    /\ questions = NotParsed
    /\ \E question_text \in QuestionTexts, responses \in ResponseSets :
            inferred = [NoInference EXCEPT !.question_text = question_text,
                                           !.responses = responses]
    /\ IdleStaging

\* measurements on both sides of every threshold of the staging, one
\* history flag at a time, a risk that was not computed, and measurements
\* that are not a number
Histories ==
    {NoHistory,
     [NoHistory EXCEPT !.AMI = " YES "],
     [NoHistory EXCEPT !.stroke_or_tia = "yes"],
     [NoHistory EXCEPT !.PAD = "Yes"],
     [NoHistory EXCEPT !.PCI = "Yes"],
     [NoHistory EXCEPT !.CABG = "Yes"],
     [NoHistory EXCEPT !.heart_failure = "Yes\n"]}

StagingArguments ==
    {CkmArguments(BMI, fasting_blood_sugar, met_score, risk_score, history, MLC_score, ckd_stage) :
        BMI \in {PyFloat(249000), PyInt(25), PyFloat(312000), NaN},
        fasting_blood_sugar \in {PyInt(100), PyFloat(1001000), NaN},
        met_score \in {PyFloat(29000), PyInt(3), NaN},
        risk_score \in {PyFloat(500), PyFloat(749), PyFloat(750), NaN, PyNone},
        history \in Histories,
        MLC_score \in {PyInt(0), PyFloat(499000), PyInt(50), PyFloat(799000), PyInt(80), NaN},
        ckd_stage \in {PyNone, PyInt(1), PyInt(2)}}

InitStage ==
    /\ IdleLayers
    /\ IdleEngine
    /\ IdleConverter
    /\ ckm_arguments \in StagingArguments
    /\ \E flags \in {<< "No", "No", "No" >>, << "Yes", "No", "No" >>,
                     << "No", "yes", "No" >>, << "No", "No", " Yes" >>} :
            /\ coronary_artery_disease = flags[1]
            /\ coronary_artery_calcium = flags[2]
            /\ stable_angina = flags[3]
    /\ ckm_stage = NoStage

(***************************************************************************)
(* Operations                                                              *)
(***************************************************************************)
Style == "listener"

arguments == << question, base, calc_context >>
normalisers == << raw, horizon, ret >>
builders == << result, shared >>
modules == << CONDITION_ADDONS, ENGAGEMENT_ADDONS, ANSWER_LAYERS_AVAILABLE >>
engine == << CALC_CONTEXT, CALCULATOR_AVAILABLE, calculator, applied, merged >>
converter == << input_lines, questions, inferred >>
staging ==
    << ckm_arguments, coronary_artery_disease, coronary_artery_calcium, stable_angina,
       ckm_stage >>
others == << engine, converter, staging >>
layers == << arguments, normalisers, builders, modules, earlier >>

\* one more call since the remembered one
Noted(call) ==
    IF call.fn = "none" \/ call.between = MaxBetween THEN call
    ELSE [call EXCEPT !.between = @ + 1]

BuildAnswerAddons ==
    /\ result' = IF CollectorRaises(question, calc_context)
                  THEN Propagated("build_answer_addons", "Exception")
                  ELSE build_answer_addons(question, calc_context, Style)
    /\ shared' = {}
    /\ earlier' = Noted(earlier)
    /\ UNCHANGED << arguments, normalisers, modules, others >>

BuildAnswerAddonsStructured ==
    /\ result' = IF CollectorRaises(question, calc_context)
                  THEN Propagated("build_answer_addons_structured", "Exception")
                  ELSE build_answer_addons_structured(question, calc_context, Style)
    /\ shared' = AddonsAliases(question, calc_context)
    /\ earlier' = Noted(earlier)
    /\ UNCHANGED << arguments, normalisers, modules, others >>

BuildLayeredAnswerStructured ==
    /\ result' = IF CollectorRaises(question, calc_context)
                  THEN Propagated("build_layered_answer_structured", "Exception")
                  ELSE build_layered_answer_structured(question, base, calc_context, Style)
    /\ shared' = AddonsAliases(question, calc_context)
    /\ earlier' = Noted(earlier)
    /\ UNCHANGED << arguments, normalisers, modules, others >>

ApplyAnswerLayers ==
    /\ result' = _apply_answer_layers(base, question, Style, calc_context)
    /\ shared' = {}
    /\ UNCHANGED << arguments, normalisers, modules, earlier, others >>

EngineApplyAnswerLayers ==
    /\ result' = engine_apply_answer_layers(base, question, Style, calc_context)
    /\ shared' = {}
    /\ UNCHANGED << arguments, normalisers, modules, earlier, others >>

\* what a caller may do to the addons list of a payload it holds
Edits(addons) == {Append(addons, "Ask about it."), << >>}

\* the caller changes the addons list of the returned payload in place; a
\* catalog list that is the same object changes with it
EditPayload ==
    /\ result.fn \in {"build_layered_answer_structured", "build_answer_addons_structured"}
    /\ result.debug.error = ""
    /\ \E edited \in Edits(result.addons) :
            /\ result' = [result EXCEPT !.fn = "edited", !.addons = edited]
            /\ CONDITION_ADDONS' =
                    [cond \in DOMAIN CONDITION_ADDONS |->
                        IF cond \in shared
                        THEN [CONDITION_ADDONS[cond] EXCEPT !.lines = edited]
                        ELSE CONDITION_ADDONS[cond]]
    /\ earlier' = IF earlier.fn = "none" THEN earlier ELSE [earlier EXCEPT !.edited = TRUE]
    /\ UNCHANGED << arguments, normalisers, ENGAGEMENT_ADDONS, ANSWER_LAYERS_AVAILABLE,
                    shared, others >>

\* the caller keeps the call just made, to repeat it later
Remember ==
    /\ result.fn \in {"build_answer_addons", "build_answer_addons_structured",
                       "build_layered_answer_structured"}
    /\ earlier' = [fn |-> result.fn, question |-> question, base |-> base,
                   calc_context |-> calc_context, out |-> result, between |-> 0,
                   edited |-> FALSE]
    /\ UNCHANGED << arguments, normalisers, builders, modules, others >>

\* the next request: other arguments, the previous payload dropped
ChangeArguments ==
    /\ \E a \in FrameArguments :
            /\ question' = a.question
            /\ base' = a.base
            /\ calc_context' = a.calc_context
    /\ result' = NoResult
    /\ shared' = {}
    /\ UNCHANGED << normalisers, modules, earlier, others >>

IsSelected ==
    /\ ret' = [fn |-> "_is_selected", v |-> PyBool(_is_selected(raw))]
    /\ UNCHANGED << arguments, raw, horizon, builders, modules, earlier, others >>

ClampEngagementValue ==
    /\ ret' = [fn |-> "_clamp_engagement_value", v |-> PyInt(_clamp_engagement_value(raw))]
    /\ UNCHANGED << arguments, raw, horizon, builders, modules, earlier, others >>

PreventTier ==
    /\ ret' = [fn |-> "_prevent_tier", v |-> PyStr(_prevent_tier(raw, horizon))]
    /\ UNCHANGED << arguments, raw, horizon, builders, modules, earlier, others >>

EngineIsSelected ==
    /\ ret' = [fn |-> "engine_is_selected", v |-> PyBool(engine_is_selected(raw))]
    /\ UNCHANGED << arguments, raw, horizon, builders, modules, earlier, others >>

\* a demo preset is merged into CALC_CONTEXT; the context merged before is
\* dropped
ApplyDemoToCalcContext ==
    /\ Len(applied) < MaxApplied
    /\ \E demo_name \in DemoNames :
            /\ CALC_CONTEXT' = _apply_demo_to_calc_context(demo_name)
            /\ applied' = Append(applied, demo_name)
    /\ merged' = NoMerged
    /\ UNCHANGED << layers, CALCULATOR_AVAILABLE, calculator, converter, staging >>

GetMergedCalcContext ==
    /\ merged' = [fn |-> "get_merged_calc_context", out |-> get_merged_calc_context]
    /\ UNCHANGED << layers, CALC_CONTEXT, CALCULATOR_AVAILABLE, calculator, applied,
                    converter, staging >>

ParseBlocks ==
    /\ questions' = [fn |-> "parse_blocks", items |-> parse_blocks(input_lines)]
    /\ UNCHANGED << layers, engine, input_lines, inferred, staging >>

InferEngagementDrivers ==
    /\ inferred' = [inferred EXCEPT
                        !.fn = "infer_engagement_drivers",
                        !.drivers = infer_engagement_drivers(inferred.question_text,
                                                             inferred.responses)]
    /\ UNCHANGED << layers, engine, input_lines, questions, staging >>

DetermineCkmStage ==
    /\ ckm_stage' =
            IF StagingRaises(ckm_arguments.BMI, ckm_arguments.fasting_blood_sugar,
                             ckm_arguments.met_score, ckm_arguments.risk_score,
                             ckm_arguments.MLC_score)
            THEN [fn |-> "determine_ckm_stage", raised |-> TRUE, v |-> PyNone]
            ELSE [fn |-> "determine_ckm_stage", raised |-> FALSE,
                  v |-> determine_ckm_stage(
                            ckm_arguments.BMI, ckm_arguments.fasting_blood_sugar,
                            ckm_arguments.met_score, ckm_arguments.risk_score,
                            ckm_arguments.AMI, ckm_arguments.stroke_or_tia,
                            ckm_arguments.PAD, ckm_arguments.PCI, ckm_arguments.CABG,
                            ckm_arguments.heart_failure, ckm_arguments.MLC_score,
                            ckm_arguments.ckd_stage)]
    /\ UNCHANGED << layers, engine, converter, ckm_arguments, coronary_artery_disease,
                    coronary_artery_calcium, stable_angina >>

Next ==
    \/ BuildAnswerAddons
    \/ BuildAnswerAddonsStructured
    \/ BuildLayeredAnswerStructured

NextNorm ==
    \/ IsSelected
    \/ ClampEngagementValue
    \/ PreventTier
    \/ EngineIsSelected

NextFrame ==
    \/ BuildAnswerAddons
    \/ BuildAnswerAddonsStructured
    \/ BuildLayeredAnswerStructured
    \/ EditPayload
    \/ Remember
    \/ ChangeArguments

NextWrap ==
    \/ ApplyAnswerLayers
    \/ EngineApplyAnswerLayers

NextContext ==
    \/ ApplyDemoToCalcContext
    \/ GetMergedCalcContext

NextConvert == ParseBlocks

NextInfer == InferEngagementDrivers

NextStage == DetermineCkmStage

Spec == Init /\ [][Next]_vars
SpecFlag == InitFlag /\ [][Next]_vars
SpecDriver == InitDriver /\ [][Next]_vars
SpecBase == InitBase /\ [][Next]_vars
SpecNorm == InitNorm /\ [][NextNorm]_vars
SpecEdge == InitEdge /\ [][Next]_vars
SpecFrame == InitFrame /\ [][NextFrame]_vars
SpecWrap == InitWrap /\ [][NextWrap]_vars
SpecContext == InitContext /\ [][NextContext]_vars
SpecConvert == InitConvert /\ [][NextConvert]_vars
SpecInfer == InitInfer /\ [][NextInfer]_vars
SpecStage == InitStage /\ [][NextStage]_vars

(***************************************************************************)
(* Vocabulary of the properties                                            *)
(***************************************************************************)
Layered == result.fn = "build_layered_answer_structured"

\* the call returned the collector's addons and why_added
Collected ==
    result.fn \in {"build_layered_answer_structured", "build_answer_addons_structured"}

ConditionCatalogLines(cond) == Range(CONDITION_ADDONS[cond].lines)

DriverCatalogLines(driver_key) ==
    UNION {Range(ENGAGEMENT_ADDONS[driver_key][val]) : val \in DOMAIN ENGAGEMENT_ADDONS[driver_key]}

AllCatalogLines ==
    UNION {ConditionCatalogLines(cond) : cond \in DOMAIN CONDITION_ADDONS}
        \cup UNION {DriverCatalogLines(d) : d \in DOMAIN ENGAGEMENT_ADDONS}

\* the reasons the collector can give
CollectorReasons ==
    {cond \o " active" : cond \in DOMAIN CONDITION_ADDONS}
        \cup {d \o " " \o IntToStr(val) : d \in DOMAIN ENGAGEMENT_ADDONS, val \in {-1, 1}}

ContextConditions == _get_calc_block(calc_context, "condition_modifiers")
ContextDrivers == _get_calc_block(calc_context, "engagement_drivers")
ContextRisk == Get(_get_calc_block(calc_context, "prevent"), "cvd_10yr")

\* the condition codes whose flag is selected
ActiveSet == Range(ActiveConditions(ContextConditions))

ContainsAny(s, patterns) == \E p \in patterns : Contains(s, p)

Normalized(line) == Lower(Strip(line))

(***************************************************************************)
(* Properties of the collector, checked under Spec                         *)
(***************************************************************************)

\* C1: no two entries of the returned addons are equal after trimming
\* whitespace and ignoring case, for every context, also when several keys of
\* condition_modifiers differ only in case or surrounding whitespace.
C1_NoDuplicateAddons ==
    Collected =>
        \A i, j \in 1..Len(result.addons) :
            i # j => Normalized(result.addons[i]) # Normalized(result.addons[j])

TripleOverlap == {"HF", "CKMH", "HTN"}
TripleForbidden == {"sodium", "fluid", "bp", "blood pressure goal", "target bp", "diuretic"}

\* C2: when HF, CKMH and HTN are all active (alone or with further
\* conditions), no line of the addons other than the inserted combined lines,
\* that is no line of the catalogs, contains one of the forbidden substrings.
C2_TripleOverlapSuppression ==
    (Collected /\ TripleOverlap \subseteq ActiveSet) =>
        \A i \in 1..Len(result.addons) :
            result.addons[i] \in AllCatalogLines =>
                ~ContainsAny(Lower(result.addons[i]), TripleForbidden)

StrokeForbidden == {"fast", "anticoag", "blood thinner", "stroke warning"}

StrokeScenario ==
    /\ ContextConditions = << Item("AF", PyStr("Yes")), Item("ST", PyStr("Yes")) >>
    /\ ContextDrivers = << Item("trust", PyInt(-1)) >>
    /\ ContextRisk = PyFloat(500)

\* C3: for AF = "Yes", ST = "Yes", trust = -1 and cvd_10yr = 0.05, why_added
\* holds "AF active", "ST active", "trust -1" and the label of the AF+ST
\* conflict rule (a reason that is not one of the collector's), the first two
\* addons are the two combined lines (lines of no catalog), and no generic
\* line about FAST or anticoagulation remains.
C3_StrokeScenario ==
    (Collected /\ StrokeScenario) =>
        /\ {"AF active", "ST active", "trust -1"} \subseteq Range(result.why_added)
        /\ \E label \in Range(result.why_added) : label \notin CollectorReasons
        /\ Len(result.addons) >= 2
        /\ \A i \in 1..Len(result.addons) :
            /\ i <= 2 => result.addons[i] \notin AllCatalogLines
            /\ result.addons[i] \in AllCatalogLines =>
                    ~ContainsAny(Lower(result.addons[i]), StrokeForbidden)

\* C4: with cvd_10yr = 0.10 and CAD the only active condition, the addons
\* hold a risk-tier line (a line of no catalog) placed strictly after every
\* CAD line.
C4_RiskTierLineAfterCAD ==
    (Collected /\ ActiveSet = {"CAD"} /\ ContextRisk = PyFloat(1000)) =>
        \E i \in 1..Len(result.addons) :
            /\ result.addons[i] \notin AllCatalogLines
            /\ \A j \in 1..Len(result.addons) :
                result.addons[j] \in ConditionCatalogLines("CAD") => j < i

\* the place of a reason in the declaration order of the catalogs:
\* conditions first, then drivers
ReasonRank(reason) ==
    IF \E i \in 1..Len(CONDITION_ORDER) : reason = CONDITION_ORDER[i] \o " active"
    THEN CHOOSE i \in 1..Len(CONDITION_ORDER) : reason = CONDITION_ORDER[i] \o " active"
    ELSE Len(CONDITION_ORDER)
            + (CHOOSE i \in 1..Len(ENGAGEMENT_ORDER) :
                    \E val \in {-1, 1} : reason = ENGAGEMENT_ORDER[i] \o " " \o IntToStr(val))

LineRank(line) ==
    IF \E i \in 1..Len(CONDITION_ORDER) : line \in ConditionCatalogLines(CONDITION_ORDER[i])
    THEN CHOOSE i \in 1..Len(CONDITION_ORDER) : line \in ConditionCatalogLines(CONDITION_ORDER[i])
    ELSE Len(CONDITION_ORDER)
            + (CHOOSE i \in 1..Len(ENGAGEMENT_ORDER) :
                    line \in DriverCatalogLines(ENGAGEMENT_ORDER[i]))

\* C7: addons and why_added follow the declaration order of the catalog
\* (CAD, AF, HF, HTN, DM, CKMH, ST, CH, then the drivers), whatever the key
\* order of the context.
C7_CatalogOrder ==
    Collected =>
        /\ \A i, j \in 1..Len(result.why_added) :
            i < j => ReasonRank(result.why_added[i]) <= ReasonRank(result.why_added[j])
        /\ \A i, j \in 1..Len(result.addons) :
            i < j => LineRank(result.addons[i]) <= LineRank(result.addons[j])

(***************************************************************************)
(* Properties of the normalisers, checked under SpecNorm                   *)
(***************************************************************************)
TenYear == Contains(Lower(horizon), "10")

\* text that float() rejects: empty, or with a character that is no digit,
\* sign or decimal point
NonNumericText(s) ==
    \/ Strip(s) = ""
    \/ \E i \in 1..Len(s) :
        /\ CharAt(s, i) \notin Whitespace \cup {"+", "-", "."}
        /\ IndexIn(Digits, CharAt(s, i)) = 0

ClaimedFalseTokens == {"no", "false", "0", "absent", "negative", "unknown", "n/a"}

\* C9 as stated: false for None, the empty string and no/false/0/absent/
\* negative/unknown/n/a in any letter case, a boolean unchanged, a number true
\* iff nonzero, and true for yes/true/1/selected/present/positive and for
\* every other non-empty string.
C9_IsSelectedAsStated ==
    ret.fn = "_is_selected" =>
        ret.v.b = (CASE raw.t = "none" -> FALSE
                     [] raw.t = "bool" -> raw.b
                     [] raw.t \in {"int", "float"} -> raw.n # 0
                     [] raw.t = "str" ->
                            (Strip(raw.s) # "" /\ Lower(Strip(raw.s)) \notin ClaimedFalseTokens)
                     [] OTHER -> ret.v.b)

\* C9 as amended: the false tokens are also none, null, na, n and
\* "not present"; text is compared after trimming, so a blank string is false;
\* every other string is true.
C9_IsSelectedAmended ==
    ret.fn = "_is_selected" =>
        ret.v.b = (CASE raw.t = "none" -> FALSE
                     [] raw.t = "bool" -> raw.b
                     [] raw.t \in {"int", "float"} -> raw.n # 0
                     [] raw.t = "str" ->
                            /\ Strip(raw.s) # ""
                            /\ Lower(Strip(raw.s)) \notin
                                    ClaimedFalseTokens \cup {"none", "null", "na", "n", "not present"}
                     [] OTHER -> ret.v.b)

C9_Witness ==
    /\ ret.fn = "_is_selected"
    /\ raw = PyStr("None")
    /\ ret.v.b = FALSE

(***************************************************************************)
(* Properties of the assembled text, checked under SpecBase                *)
(***************************************************************************)
TrimmedBase == IF base.t = "none" THEN "" ELSE Strip(ToStr(base))

RECURSIVE Rendered(_)
Rendered(lines) ==
    IF lines = << >> THEN ""
    ELSE "- " \o lines[1] \o (IF Len(lines) > 1 THEN "\n" \o Rendered(Tail(lines)) ELSE "")

\* C6 as stated: final is trim(base), a blank line and the bullets whenever
\* addons is non-empty, for every base, also an empty or missing one; final is
\* trim(base) when addons is empty.
C6_FinalAsStated ==
    Layered =>
        result.final = IF result.addons # << >>
                       THEN TrimmedBase \o "\n\n" \o Rendered(result.addons)
                       ELSE TrimmedBase

\* C6 as amended: with addons, final is trim(base), a blank line and the
\* bullets when trim(base) is not empty, and the bullets alone when it is
\* empty; without addons final is trim(base).
C6_FinalAmended ==
    Layered =>
        /\ result.base = TrimmedBase
        /\ result.final = IF result.addons = << >> THEN TrimmedBase
                          ELSE IF TrimmedBase = "" THEN Rendered(result.addons)
                          ELSE TrimmedBase \o "\n\n" \o Rendered(result.addons)

C6_Witness ==
    /\ Layered
    /\ result.addons # << >>
    /\ base \in {PyNone, PyStr(" \n")}
    /\ result.final = Rendered(result.addons)

(***************************************************************************)
(* Properties of one condition flag, checked under SpecFlag                *)
(***************************************************************************)
ContextFlag == ContextConditions[1].v

\* neither a boolean, a number, None nor one of the tokens _is_selected names
Malformed(value) ==
    \/ value.t = "list"
    \/ value.t = "str" /\ Lower(Strip(value.s)) \notin FalseTokens \cup TrueTokens

\* C8: a malformed condition flag is normalised to inactive: it contributes
\* no add-on line and no why_added entry.
C8_MalformedFlagInactive ==
    (Collected /\ Malformed(ContextFlag)) =>
        result.addons = << >> /\ result.why_added = << >>

(***************************************************************************)
(* Properties of the driver lines, checked under SpecDriver                *)
(***************************************************************************)
RECURSIVE ClampedDriverLines(_, _)
ClampedDriverLines(driver_keys, drivers) ==
    IF driver_keys = << >> THEN << >>
    ELSE LET variants == ENGAGEMENT_ADDONS[driver_keys[1]]
             val == _clamp_engagement_value(Get(drivers, driver_keys[1]))
         IN  (IF driver_keys[1] \in Keys(drivers) /\ val \in DOMAIN variants
              THEN variants[val] ELSE << >>)
                \o ClampedDriverLines(Tail(driver_keys), drivers)

\* C10: the driver lines emitted are the catalog lines of the clamped value
\* of each driver: none for a value that is no integer or is 0, the +1 lines
\* for 2, the -1 lines for -5.
C10_ClampedDriverLines ==
    Collected => result.addons = ClampedDriverLines(ENGAGEMENT_ORDER, ContextDrivers)

(***************************************************************************)
(* Properties of the reasons, checked under Spec                           *)
(***************************************************************************)
Count(seq, x) == Cardinality({i \in 1..Len(seq) : seq[i] = x})

\* the value of a driver of the context, normalised to -1, 0 or 1
DriverValue(driver_key) ==
    IF driver_key \in Keys(ContextDrivers)
    THEN _clamp_engagement_value(Get(ContextDrivers, driver_key))
    ELSE 0

\* C11: why_added holds exactly one "<CODE> active" for each active condition
\* of the catalog, exactly one "<driver> <value>" for each catalog driver with
\* a nonzero value, nothing else, and no entry twice, for every context.
C11_WhyAddedExactlyOnce ==
    Collected =>
        /\ \A cond \in DOMAIN CONDITION_ADDONS :
            Count(result.why_added, cond \o " active") = IF cond \in ActiveSet THEN 1 ELSE 0
        /\ \A d \in DOMAIN ENGAGEMENT_ADDONS : \A val \in {-1, 1} :
            Count(result.why_added, d \o " " \o IntToStr(val))
                = IF DriverValue(d) = val THEN 1 ELSE 0
        /\ Range(result.why_added) \subseteq CollectorReasons
        /\ \A i, j \in 1..Len(result.why_added) :
            i # j => result.why_added[i] # result.why_added[j]

(***************************************************************************)
(* Properties of repeated calls, checked under SpecFrame                   *)
(***************************************************************************)
BuilderNames ==
    {"build_answer_addons", "build_answer_addons_structured",
     "build_layered_answer_structured"}

\* the last call is the remembered call made again
Repeated ==
    /\ result.fn \in BuilderNames
    /\ result.fn = earlier.fn
    /\ question = earlier.question
    /\ base = earlier.base
    /\ calc_context = earlier.calc_context

NoError == result.debug.error = ""

NotDict(block) == block.kind # "dict"

\* the context with one block replaced by an empty dict
WithEmpty(key) ==
    IF key = "condition_modifiers"
    THEN [calc_context EXCEPT !.condition_modifiers = DictBlock(<< >>)]
    ELSE [calc_context EXCEPT !.engagement_drivers = DictBlock(<< >>)]

\* C13 as stated: when the context lacks condition_modifiers or
\* engagement_drivers, or either is no mapping, or the context is None or no
\* mapping, addons and why_added are empty, final is the trimmed base and no
\* exception is raised.
C13_MissingPartsAsStated ==
    (/\ Layered
     /\ \/ calc_context.kind # "dict"
        \/ NotDict(calc_context.condition_modifiers)
        \/ NotDict(calc_context.engagement_drivers)) =>
        /\ NoError
        /\ result.addons = << >>
        /\ result.why_added = << >>
        /\ result.final = TrimmedBase

\* C13 as amended: no exception is raised; a block that is missing or no
\* mapping counts as an empty mapping, the other block still contributing;
\* when both are missing or no mapping, or the context is None or no mapping,
\* addons and why_added are empty and final is the trimmed base.
C13_MissingPartsAmended ==
    Layered =>
        /\ NoError
        /\ (\/ calc_context.kind # "dict"
            \/ /\ NotDict(calc_context.condition_modifiers)
               /\ NotDict(calc_context.engagement_drivers)) =>
                /\ result.addons = << >>
                /\ result.why_added = << >>
                /\ result.final = TrimmedBase
        /\ \A key \in {"condition_modifiers", "engagement_drivers"} :
            (calc_context.kind = "dict" /\ NotDict(calc_context[key])) =>
                result = build_layered_answer_structured(question, base, WithEmpty(key), Style)

C13_Witness ==
    /\ Layered
    /\ NoError
    /\ calc_context.kind = "dict"
    /\ calc_context.condition_modifiers = OtherBlock
    /\ DriverValue("trust") = -1
    /\ result.why_added = << "trust -1" >>
    /\ result.addons # << >>

KnownCondition(item) == Upper(Strip(item.k)) \in DOMAIN CONDITION_ADDONS
KnownDriver(item) == item.k \in DOMAIN ENGAGEMENT_ADDONS

\* the context without the codes the catalogs do not hold
KnownCodesOnly ==
    [calc_context EXCEPT
        !.condition_modifiers =
            IF NotDict(@) THEN @ ELSE DictBlock(SelectSeq(@.items, KnownCondition)),
        !.engagement_drivers =
            IF NotDict(@) THEN @ ELSE DictBlock(SelectSeq(@.items, KnownDriver))]

UnknownCodes ==
    {Upper(Strip(k)) : k \in Keys(ContextConditions)} \ DOMAIN CONDITION_ADDONS

\* C14: a condition or driver code of the context that the catalog does not
\* hold raises nothing and adds no line and no reason: addons and why_added
\* are those of the context without that code.
C14_UnknownCodesIgnored ==
    Collected =>
        /\ NoError
        /\ result.addons = _collect_addons_and_reasons(question, KnownCodesOnly).addons
        /\ result.why_added = _collect_addons_and_reasons(question, KnownCodesOnly).why
        /\ \A code \in UnknownCodes : code \o " active" \notin Range(result.why_added)
        /\ Range(result.addons) \subseteq AllCatalogLines

C14_Witness ==
    /\ Collected
    /\ NoError
    /\ "XX" \in ActiveSet
    /\ "CAD" \in ActiveSet
    /\ "mood" \in Keys(ContextDrivers)
    /\ result.why_added = << "CAD active" >>

\* C15: with the relevance flag off, addons and why_added are those of the
\* same context under a question without tags, whatever the tags of the
\* question, and every active condition of the catalog contributes its lines.
C15_TagsDoNotMatter ==
    Collected =>
        /\ result.addons = _collect_addons_and_reasons(Question(NoTags), calc_context).addons
        /\ result.why_added = _collect_addons_and_reasons(Question(NoTags), calc_context).why
        /\ \A cond \in ActiveSet \cap DOMAIN CONDITION_ADDONS :
            ConditionCatalogLines(cond) \subseteq Range(result.addons)

C15_Witness ==
    /\ Collected
    /\ question = Question(Tags(<< "hf" >>))
    /\ ActiveSet = {"CAD"}
    /\ ConditionCatalogLines("CAD") \subseteq Range(result.addons)

\* the catalog drivers the context holds with an integer value of 0
ZeroDrivers ==
    {d \in DOMAIN ENGAGEMENT_ADDONS \cap Keys(ContextDrivers) :
        ToInt(Get(ContextDrivers, d)) = Returned(0)}

\* C16: a driver whose value is 0 adds no line and no reason, and is still
\* listed among the drivers of the collector's debug output.
C16_ZeroDriverRetained ==
    (result.fn = "build_answer_addons_structured" /\ NoError) =>
        \A d \in ZeroDrivers :
            /\ Range(result.addons) \cap DriverCatalogLines(d) = {}
            /\ \A val \in {-1, 0, 1} : d \o " " \o IntToStr(val) \notin Range(result.why_added)
            /\ d \in Keys(result.debug.matched_drivers)

EmptyContexts ==
    {Context(MissingBlock, MissingBlock, MissingBlock),
     Context(DictBlock(<< >>), DictBlock(<< >>), DictBlock(<< >>))}

\* C17: for an empty context (no conditions, no drivers, no risk) addons and
\* why_added are empty and the payload's final equals its base.
C17_EmptyContext ==
    (Collected /\ calc_context \in EmptyContexts) =>
        /\ result.addons = << >>
        /\ result.why_added = << >>
        /\ Layered => (result.final = result.base /\ result.base = TrimmedBase)

C17_Witness ==
    /\ Layered
    /\ calc_context = Context(DictBlock(<< >>), DictBlock(<< >>), DictBlock(<< >>))
    /\ base = PyStr(" b\n")
    /\ result.final = "b"
    /\ result.addons = << >>

(***************************************************************************)
(* Properties of the two wrappers, checked under SpecWrap                  *)
(***************************************************************************)
BuilderFails == CollectorRaises(question, OrEmpty(calc_context))

\* the lines build_answer_addons puts in its text for the current arguments
BuilderLines ==
    IF BuilderFails THEN << >>
    ELSE _collect_addons_and_reasons(question, OrEmpty(calc_context)).addons

\* C19: the layer_meta of answer_Layers._apply_answer_layers has the add-on
\* lines build_answer_addons yields for the same question and context, and
\* final is the base, a blank line and those add-ons when there is one, the
\* trimmed base when there is none.
C19_WrapperAddsBuilderLines ==
    result.fn = "_apply_answer_layers" =>
        /\ NoError
        /\ result.addons = BuilderLines
        /\ result.final = IF BuilderLines # << >>
                          THEN TrimmedBase \o "\n\n" \o Join("\n", BuilderLines)
                          ELSE TrimmedBase

EngineCall == result.fn = "signatures_engine._apply_answer_layers"

\* the text build_answer_addons returns to the engine, trimmed
AddonText ==
    IF BuilderFails THEN ""
    ELSE Strip(build_answer_addons(question, OrEmpty(calc_context), Style).text)

PresetOf(demo_name) ==
    IF demo_name \in DOMAIN DEMO_PRESETS THEN DEMO_PRESETS[demo_name] ELSE << >>

\* the applied presets that define a top-level key, by their place in the
\* order of application
Definers(key) == {i \in 1..Len(applied) : key \in Keys(PresetOf(applied[i]))}

Last(places) == CHOOSE i \in places : \A j \in places : j <= i

\* the blocks the calculator gives
CalculatorBlocks == try_get_calculator_results

TopLevelKeys ==
    Keys(CalculatorBlocks) \cup UNION {Keys(DEMO_PRESETS[d]) : d \in DOMAIN DEMO_PRESETS}

MergedCalled == merged.fn = "get_merged_calc_context"

\* C21: after the presets p1..pn were applied in that order, the merged
\* context holds, for each top-level key, the block of the last applied
\* preset that defines the key, and the calculator's block for a key that no
\* applied preset defines; a preset block replaces the calculator's block of
\* the same key as a whole.
C21_LastPresetWins ==
    MergedCalled =>
        /\ Keys(merged.out) \subseteq TopLevelKeys
        /\ \A i, j \in 1..Len(merged.out) : merged.out[i].k = merged.out[j].k => i = j
        /\ \A key \in TopLevelKeys :
                IF Definers(key) # {}
                THEN /\ key \in Keys(merged.out)
                     /\ Get(merged.out, key) = Get(PresetOf(applied[Last(Definers(key))]), key)
                ELSE IF key \in Keys(CalculatorBlocks)
                THEN /\ key \in Keys(merged.out)
                     /\ Get(merged.out, key) = Get(CalculatorBlocks, key)
                ELSE key \notin Keys(merged.out)

\* "risk" then "af_st" over a calculator with its own prevent block: the
\* prevent block is that of "af_st" alone, the scores are the calculator's
C21_Witness ==
    /\ MergedCalled
    /\ applied = << "risk", "af_st" >>
    /\ Keys(CalculatorBlocks) = {"prevent", "scores"}
    /\ Get(merged.out, "prevent") = DictBlock(<< Item("cvd_10yr", PyFloat(610)) >>)
    /\ Get(merged.out, "scores") = DictBlock(<< Item("mylifecheck", PyInt(72)) >>)
    /\ Get(merged.out, "engagement_drivers") = DictBlock(<< Item("trust", PyInt(-1)) >>)

(***************************************************************************)
(* Properties of the converter's driver inference, checked under SpecInfer *)
(***************************************************************************)
Inferred == inferred.fn = "infer_engagement_drivers"

DriverCodes == Keys(ENGAGEMENT_KEYWORDS)

KeywordsOf(code) == Range(Get(ENGAGEMENT_KEYWORDS, code))

\* a keyword of the code occurs in the question text or in a response
OccursInAText(code) ==
    \E kw \in KeywordsOf(code) :
        \/ Contains(Lower(inferred.question_text), kw)
        \/ \E i \in 1..Len(inferred.responses) : Contains(Lower(inferred.responses[i].v), kw)

\* the question text and the responses, joined by single blanks, in lower
\* case
JoinedText ==
    Lower(Join(" ", << inferred.question_text >> \o Values(inferred.responses)))

OccursInJoinedText(code) == \E kw \in KeywordsOf(code) : Contains(JoinedText, kw)

Answered(persona) ==
    /\ persona \in Keys(inferred.responses)
    /\ Strip(Get(inferred.responses, persona)) # ""

Parsed == questions.fn = "parse_blocks"

\* the places of the input lines that match the 'Question N:' pattern
QuestionLines ==
    {i \in 1..Len(input_lines) : QUESTION_RE(Strip(input_lines[i])).matched}

\* the k-th of the places, in input order
Kth(places, k) == CHOOSE i \in places : Cardinality({j \in places : j <= i}) = k

\* the places of the lines that follow the k-th question line, up to the
\* next question line
BlockLines(places, k) ==
    LET first == Kth(places, k)
    IN  {i \in 1..Len(input_lines) : i > first /\ \A j \in places : j > first => i < j}

\* the personas whose response a line of the block opens
GivenIn(places, k) ==
    LET opened == {PERSONA_RE(Strip(input_lines[i])) : i \in BlockLines(places, k)}
    IN  {Capitalized(Lower(pm.head)) : pm \in {m \in opened : m.matched}}

\* C23: every emitted item has a response for each of the four personas,
\* the empty string when the input gave none, a signatures block that is
\* not None, and a source title and url.
C23_ItemsComplete ==
    Parsed =>
        LET places == QuestionLines
        IN  \A k \in 1..Len(questions.items) :
                LET item == questions.items[k]
                    given == IF k <= Cardinality(places) THEN GivenIn(places, k) ELSE {}
                IN  /\ \A persona \in Range(PERSONAS) :
                            /\ persona \in Keys(item.responses)
                            /\ persona \notin given => Get(item.responses, persona) = ""
                    /\ item.signatures.kind = "dict"
                    /\ item.source_title # ""
                    /\ item.source_url # ""

\* a block with a Listener line only
C23_Witness ==
    /\ Parsed
    /\ Len(questions.items) = 1
    /\ GivenIn(QuestionLines, 1) = {"Listener"}
    /\ questions.items[1].responses =
            << Item("Listener", ": I hear you. and more"), Item("Motivator", ""),
               Item("Director", ""), Item("Expert", "") >>
    /\ questions.items[1].source_title = "American Heart Association - Healthy Living"

\* the items of a category, counted up to the k-th item
RankInCategory(k) ==
    Cardinality({j \in 1..k : questions.items[j].category = questions.items[k].category})

\* C24: one item per input line that matches the 'Question N:' pattern, in
\* input order; the ids are pairwise distinct and numbered 01, 02, ...
\* within each category; lines before the first question line give no item.
C24_OneItemPerQuestionLine ==
    Parsed =>
        LET places == QuestionLines
        IN  /\ Len(questions.items) = Cardinality(places)
            /\ \A k \in 1..Len(questions.items) :
                    /\ k <= Cardinality(places)
                    /\ questions.items[k].question =
                            clean_quotes(QUESTION_RE(Strip(input_lines[Kth(places, k)])).rest)
                    /\ questions.items[k].id =
                            questions.items[k].category \o "-" \o TwoDigits(RankInCategory(k))
            /\ \A j, k \in 1..Len(questions.items) :
                    questions.items[j].id = questions.items[k].id => j = k

\* a heading before two questions, the second of another category
C24_Witness ==
    /\ Parsed
    /\ input_lines = << "High Blood Pressure\n", "Question 1: \"What is my goal?\"\n",
                        "question 2 : Can I walk after a stroke?\n" >>
    /\ [k \in 1..Len(questions.items) |-> questions.items[k].id] = << "HTN-01", "STROKE-01" >>
    /\ questions.items[1].question = "What is my goal?"

(***************************************************************************)
(* The two flag normalisers, checked under SpecNorm                        *)
(***************************************************************************)
\* C25: for every raw condition flag, signatures_engine._is_selected, which
\* decides whether the condition is displayed as selected, returns what
\* answer_Layers._is_selected, which decides whether its add-on lines are
\* emitted, returns.
C25_NormalisersAgree ==
    (ret.fn = "engine_is_selected" /\ raw \in RawFlags) =>
        ret.v = PyBool(_is_selected(raw))

(***************************************************************************)
(* Lines and reasons of the collector, checked under SpecEdge              *)
(***************************************************************************)
\* what the catalogs can add: the reason and the stripped lines of each
\* condition, and of each driver at each value it has lines for
CatalogEntries ==
    {[why |-> cond \o " active", lines |-> StrippedLines(CONDITION_ADDONS[cond].lines)] :
        cond \in DOMAIN CONDITION_ADDONS}
        \cup UNION {{[why |-> d \o " " \o IntToStr(val),
                      lines |-> StrippedLines(ENGAGEMENT_ADDONS[d][val])] :
                        val \in DOMAIN ENGAGEMENT_ADDONS[d]} : d \in DOMAIN ENGAGEMENT_ADDONS}

\* every condition, and every driver at -1 and at +1, has a line to add
CatalogsComplete ==
    /\ \A entry \in CatalogEntries : entry.lines # << >>
    /\ \A d \in DOMAIN ENGAGEMENT_ADDONS : {-1, 1} \subseteq DOMAIN ENGAGEMENT_ADDONS[d]

\* C26: the collector's addons list is empty exactly when its why_added list
\* is empty: every why_added entry comes with at least one add-on line of
\* the same catalog entry, and every add-on line has the why_added entry of
\* the condition or driver that produced it.
C26_LinesIffReasons ==
    /\ CatalogsComplete
    /\ (Collected /\ NoError) =>
            /\ (result.addons = << >>) <=> (result.why_added = << >>)
            /\ \A reason \in Range(result.why_added) :
                    \E entry \in CatalogEntries :
                        /\ entry.why = reason
                        /\ entry.lines # << >>
                        /\ Range(entry.lines) \subseteq Range(result.addons)
            /\ \A line \in Range(result.addons) :
                    \E entry \in CatalogEntries :
                        /\ line \in Range(entry.lines)
                        /\ entry.why \in Range(result.why_added)

\* CAD selected with trust at -1, next to a code the catalog does not hold
\* and a driver at 0
C26_Witness ==
    /\ Collected
    /\ NoError
    /\ Keys(ContextConditions) = {"CAD", "XX"}
    /\ Get(ContextDrivers, "trust") = PyInt(-1)
    /\ Get(ContextDrivers, "mood") = PyInt(0)
    /\ result.why_added = << "CAD active", "trust -1" >>
    /\ Len(result.addons) = 4

(***************************************************************************)
(* The CKM staging, checked under SpecStage                                *)
(***************************************************************************)
Staged == ckm_stage.fn = "determine_ckm_stage"

Numbers == {"int", "float"}

NumericInputs ==
    /\ \A x \in {ckm_arguments.BMI, ckm_arguments.fasting_blood_sugar, ckm_arguments.met_score,
                 ckm_arguments.risk_score, ckm_arguments.MLC_score} : x.t \in Numbers
    /\ ckm_arguments.ckd_stage.t \in Numbers \cup {"none"}

ClinicalFlags ==
    {ckm_arguments.AMI, ckm_arguments.stroke_or_tia, ckm_arguments.PAD, ckm_arguments.PCI,
     ckm_arguments.CABG, ckm_arguments.heart_failure}

SubclinicalFlags == {coronary_artery_disease, coronary_artery_calcium, stable_angina}

YesNoFlags ==
    \A flag \in ClinicalFlags \cup SubclinicalFlags : Lower(Strip(flag)) \in {"yes", "no"}

Measurements ==
    {ckm_arguments.BMI, ckm_arguments.fasting_blood_sugar, ckm_arguments.risk_score,
     ckm_arguments.MLC_score}

====
